---- MODULE Spec2Model ----
(***************************************************************************)
(* Interview analysis pipeline of worlds-hardest-interview: the inline     *)
(* sliding-window rate limiter of the API routes, the scoring response     *)
(* validator of the score-interview route, the transcript retriever and    *)
(* the client pipeline that drives them.                                   *)
(*                                                                         *)
(* Several specifications share the variables; each one exercises one part *)
(* of the program and leaves the variables of the other parts unchanged:   *)
(*   SpecRL    the rate limiter of one route module, called sequentially   *)
(*   SpecConc  concurrent POST handlers of the score-interview route       *)
(*   SpecValidate, SpecHeal, SpecTier  the validator on parsed responses   *)
(*   SpecFetch one run of the client pipeline against the routes           *)
(*   SpecPost  one POST request of the score-interview route, step by step *)
(*   SpecWizard  the page: the wizard's handlers and its pipeline runs     *)
(*   SpecParse the parsing of the collaborator's response text by POST     *)
(*   SpecGet   requests of the conversations route, one after the other    *)
(***************************************************************************)
EXTENDS Integers, Sequences, FiniteSets, TLC

VARIABLES
    now,                \* Date.now(), in ms
    rateLimitStore,     \* route module -> its Map<string, number[]> (a function on the keys present)
    rateLimitCallCount, \* route module -> its rateLimitCallCount
    lastCall,           \* the latest rateLimit call: its caller, its time, its result and what it found
    admitted,           \* history: key -> times of the calls admitted on it that are still inside the window
    bursts,             \* history: key -> start and number of calls of its current burst
    handlers,           \* in-flight POST /api/score-interview requests: position and answer
    post,               \* one POST /api/score-interview request followed step by step
    parsed,             \* the collaborator's response as parsed by POST (step 7)
    response,           \* the answer of POST to that response (steps 8 and 9)
    wizard,             \* the WizardState of useInterviewWizard
    run,                \* the position of runAnalysisPipeline and of its fetchTranscript call
    lastGet,            \* the latest answer of GET /api/conversations/[id]
    upstreamCalls,      \* requests made to the ElevenLabs API
    pipelines,          \* the runs of runAnalysisPipeline of one page, each with its position
    session,            \* the InterviewStep mounted on the page: its call and its conversation
    responseText,       \* the text of the collaborator's response as POST extracted it (step 6)
    getRequest          \* the request GET /api/conversations/[id] answered last, with the upstream's answer

vars == <<now, rateLimitStore, rateLimitCallCount, lastCall, admitted, bursts, handlers, post, parsed, response,
          wizard, run, lastGet, upstreamCalls, pipelines, session, responseText, getRequest>>

pipelineVars == <<wizard, run, lastGet, upstreamCalls>>

flowVars == <<pipelines, session, responseText, getRequest>>

limiterVars == <<now, rateLimitStore, rateLimitCallCount, lastCall, admitted, bursts, handlers, post>>

-----------------------------------------------------------------------------
(* Bounds of the model *)

\* maxRequests of the route's policy. The routes pass 30, 200 and 100
\* (score-interview/route.ts:469, conversations/[id]/route.ts:61,
\* upload/route.ts:51); rateLimit is parametric in it and the model runs it
\* with a small budget.
MaxRequests == 2

\* A behaviour holds the MaxCalls rateLimit calls before a sweep call, the
\* sweep call and the MaxCalls - 1 calls after it.
MaxCalls == 5

\* Numbers of a payload are held in units of 1/Scale.
Scale == 4

\* Ratings are drawn within EdgeSpan units of every tier boundary.
EdgeSpan == 4

\* Free texts have at most MaxTextLen characters.
MaxTextLen == 2

-----------------------------------------------------------------------------
(* Program constants *)

WINDOW_MS == 60000

SWEEP_EVERY == 100

\* The concurrent POST requests of SpecConc.
Handlers == {1, 2, 3}

Modules == {"score-interview", "conversations", "upload"}

\* x-forwarded-for values of the callers; "unknown" is the route's fallback.
Identifiers == {"10.0.0.1", "unknown"}

KeyOfNamespace(namespace, identifier) == <<namespace, "">>

\* `${namespace}:${identifier}`
Key(namespace, identifier) == <<namespace, identifier>>

\* Instants at which Date.now() is read: the start, one millisecond later,
\* and just before, at, and just after one window length.
Instants == {0, 1, WINDOW_MS - 1, WINDOW_MS, WINDOW_MS + 1}

-----------------------------------------------------------------------------
(* The inline rate limiter *)

\* timestamps.filter((t) => now - t < windowMs)
UnexpiredInclusive(timestamps, t0, windowMs) ==
    SelectSeq(timestamps, LAMBDA t : t0 - t <= windowMs)

Unexpired(timestamps, t0, windowMs) ==
    SelectSeq(timestamps, LAMBDA t : t0 - t < windowMs)

\* rateLimitStore.get(key) ?? []
MapGet(store, key) == IF key \in DOMAIN store THEN store[key] ELSE <<>>

\* rateLimitStore.set(key, value)
MapSet(store, key, value) ==
    [k \in DOMAIN store \cup {key} |-> IF k = key THEN value ELSE store[k]]

\* A cleanup that deletes the emptied keys and leaves the other lists as
\* they were.
SweepDeletingOnly(store, t0, windowMs) ==
    LET kept == { k \in DOMAIN store : Len(Unexpired(store[k], t0, windowMs)) # 0 }
    IN  [k \in kept |-> store[k]]

\* A cleanup that forgets every key.
SweepEverything(store, t0, windowMs) == [k \in {} |-> <<>>]

\* The periodic cleanup loop: every key is filtered, emptied keys are deleted.
Sweep(store, t0, windowMs) ==
    LET kept == { k \in DOMAIN store : Len(Unexpired(store[k], t0, windowMs)) # 0 }
    IN  [k \in kept |-> Unexpired(store[k], t0, windowMs)]

RateLimitNoPush(store, callCount, identifier, maxRequests, windowMs, namespace, t0) ==
    LET key == Key(namespace, identifier)
        valid == Unexpired(MapGet(store, key), t0, windowMs)
        count1 == callCount + 1
        swept == IF count1 % SWEEP_EVERY = 0 THEN Sweep(store, t0, windowMs) ELSE store
    IN  IF Len(valid) >= maxRequests
        THEN [store |-> MapSet(swept, key, valid), callCount |-> count1,
              success |-> FALSE, remaining |-> 0]
        ELSE [store |-> MapSet(swept, key, valid), callCount |-> count1,
              success |-> TRUE, remaining |-> maxRequests - (Len(valid) + 1)]

RateLimitOffByOne(store, callCount, identifier, maxRequests, windowMs, namespace, t0) ==
    LET key == Key(namespace, identifier)
        valid == Unexpired(MapGet(store, key), t0, windowMs)
        count1 == callCount + 1
        swept == IF count1 % SWEEP_EVERY = 0 THEN Sweep(store, t0, windowMs) ELSE store
    IN  IF Len(valid) > maxRequests
        THEN [store |-> MapSet(swept, key, valid), callCount |-> count1,
              success |-> FALSE, remaining |-> 0]
        ELSE [store |-> MapSet(swept, key, Append(valid, t0)), callCount |-> count1,
              success |-> TRUE, remaining |-> maxRequests - (Len(valid) + 1)]

\* rateLimit(identifier, maxRequests, windowMs, namespace), run at time t0 on
\* the module's store and call counter; returns the new store and counter
\* with the function's result.
RateLimit(store, callCount, identifier, maxRequests, windowMs, namespace, t0) ==
    LET key == Key(namespace, identifier)
        timestamps == MapGet(store, key)
        valid == Unexpired(timestamps, t0, windowMs)
        count1 == callCount + 1
        swept == IF count1 % SWEEP_EVERY = 0 THEN Sweep(store, t0, windowMs) ELSE store
    IN  IF Len(valid) >= maxRequests
        THEN [store |-> MapSet(swept, key, valid), callCount |-> count1,
              success |-> FALSE, remaining |-> 0]
        ELSE [store |-> MapSet(swept, key, Append(valid, t0)), callCount |-> count1,
              success |-> TRUE, remaining |-> maxRequests - (Len(valid) + 1)]

-----------------------------------------------------------------------------
(* JavaScript values of a parsed JSON response *)

\* One shape for every scalar: k is the typeof class ("undefined", "null",
\* "number", "string", "boolean", "object"), fin tells a finite number from
\* NaN and the infinities, n is a number in units of 1/Scale, s an
\* enumerated string, c the characters of a free text, b a boolean.
Undefined == [k |-> "undefined", fin |-> FALSE, n |-> 0, s |-> "", c |-> <<>>, b |-> FALSE]
Null == [Undefined EXCEPT !.k = "null"]
Num(q) == [Undefined EXCEPT !.k = "number", !.fin = TRUE, !.n = q]
NaN == [Undefined EXCEPT !.k = "number"]
Infinity == [Undefined EXCEPT !.k = "number", !.n = 1]
Sym(name) == [Undefined EXCEPT !.k = "string", !.s = name]
Text(chars) == [Undefined EXCEPT !.k = "string", !.c = chars]
Bool(v) == [Undefined EXCEPT !.k = "boolean", !.b = v]
PlainObject == [Undefined EXCEPT !.k = "object"]

\* typeof v === "number" && Number.isFinite(v)
IsFiniteNumber(v) == v.k = "number" /\ v.fin

IsSpace(ch) == ch = " "

RECURSIVE TrimStart(_)
TrimStart(chars) ==
    IF chars # <<>> /\ IsSpace(Head(chars)) THEN TrimStart(Tail(chars)) ELSE chars

RECURSIVE TrimEnd(_)
TrimEnd(chars) ==
    IF chars # <<>> /\ IsSpace(chars[Len(chars)])
    THEN TrimEnd(SubSeq(chars, 1, Len(chars) - 1))
    ELSE chars

\* String.prototype.trim
Trim(chars) == TrimEnd(TrimStart(chars))

IsNonBlankTextUntrimmed(v) == v.k = "string" /\ Len(v.c) > 0

\* typeof v === "string" && v.trim().length > 0, for a free text
IsNonBlankText(v) == v.k = "string" /\ Len(Trim(v.c)) > 0

MathRoundPastInteger(q) == q \div Scale + 1

\* Rounding that sends a half to the integer below.
MathRoundHalfDown(q) == (2 * q + Scale - 1) \div (2 * Scale)

\* Math.round on a number held in units of 1/Scale: floor(x + 0.5)
MathRound(q) == (2 * q + Scale) \div (2 * Scale)

-----------------------------------------------------------------------------
(* lib/constants *)

ELO_TIERS_Gap == <<
    [name |-> "Wasting My Time", min |-> 100, max |-> 599],
    [name |-> "Shows a Pulse", min |-> 601, max |-> 999],
    [name |-> "Adequate", min |-> 1000, max |-> 1399],
    [name |-> "Noteworthy", min |-> 1400, max |-> 1799],
    [name |-> "Impressive", min |-> 1800, max |-> 2199],
    [name |-> "Hired Material", min |-> 2200, max |-> 3000] >>

ELO_TIERS == <<
    [name |-> "Wasting My Time", min |-> 100, max |-> 599],
    [name |-> "Shows a Pulse", min |-> 600, max |-> 999],
    [name |-> "Adequate", min |-> 1000, max |-> 1399],
    [name |-> "Noteworthy", min |-> 1400, max |-> 1799],
    [name |-> "Impressive", min |-> 1800, max |-> 2199],
    [name |-> "Hired Material", min |-> 2200, max |-> 3000] >>

HIRED_THRESHOLD == 2200

MAX_CV_TEXT_LENGTH == 100000

BASE_DELAY_MS == 3000

\* BACKOFF_MULTIPLIER = 1.5, as the fraction BACKOFF_NUM / BACKOFF_DEN
BACKOFF_NUM == 3

BACKOFF_DEN == 2

MAX_ATTEMPTS == 5

MAX_TRANSCRIPT_LENGTH == 200000

VALID_DIMENSIONS ==
    {"communication", "technical", "behavioural", "confidence", "questionsAsked"}

VALID_ANNOTATION_TYPES_Extra ==
    {"brilliant", "good", "neutral", "inaccuracy", "mistake", "blunder", "excellent"}

VALID_ANNOTATION_TYPES ==
    {"brilliant", "good", "neutral", "inaccuracy", "mistake", "blunder"}

-----------------------------------------------------------------------------
(* The scoring response validator *)

\* The first tier of the table that holds the rating, with the fallbacks.
RECURSIVE TierScan(_, _)
TierScan(rating, i) ==
    IF i > Len(ELO_TIERS)
    THEN IF rating < 100 THEN "Wasting My Time" ELSE "Hired Material"
    ELSE IF rating >= ELO_TIERS[i].min /\ rating <= ELO_TIERS[i].max
         THEN ELO_TIERS[i].name
         ELSE TierScan(rating, i + 1)

DeriveTierFromRating(rating) == TierScan(rating, 1)

\* correctVerdict of validateScoringResponse
DeriveVerdictStrict(roundedRating) ==
    IF roundedRating > HIRED_THRESHOLD THEN "HIRED" ELSE "NOT HIRED"

DeriveVerdict(roundedRating) ==
    IF roundedRating >= HIRED_THRESHOLD THEN "HIRED" ELSE "NOT HIRED"

\* Tier and verdict self-healing: both are derived from the rounded rating;
\* the returned values are read for the warnings only.
SelfHealTrusting(returnedTier, returnedVerdict, roundedRating) ==
    LET correctTier == DeriveTierFromRating(roundedRating)
        correctVerdict == DeriveVerdict(roundedRating)
    IN  [tier |-> IF returnedTier.k = "string" /\ returnedTier.s \in { ELO_TIERS[i].name : i \in 1..Len(ELO_TIERS) }
                  THEN returnedTier.s ELSE correctTier,
         verdict |-> correctVerdict,
         warned |-> {}]

SelfHeal(returnedTier, returnedVerdict, roundedRating) ==
    LET correctTier == DeriveTierFromRating(roundedRating)
        correctVerdict == DeriveVerdict(roundedRating)
    IN  [tier |-> correctTier,
         verdict |-> correctVerdict,
         warned |->
            (IF returnedTier.k = "string" /\ returnedTier.s # correctTier
             THEN {"Tier self-healing"} ELSE {})
            \cup
            (IF returnedVerdict.k = "string" /\ returnedVerdict.s # correctVerdict
             THEN {"Verdict self-healing"} ELSE {})]

NoResults == [eloRating |-> 0, tier |-> "", verdict |-> "", bossSummary |-> <<>>,
              dimensions |-> <<>>, moments |-> <<>>, isPartial |-> FALSE,
              note |-> Undefined]

Thrown(message) == [ok |-> FALSE, error |-> message, results |-> NoResults, warned |-> {}]

\* The loop over parsed.dimensions from entry i on: the error of the first
\* entry that fails, or the validated entries with the names seen.
RECURSIVE DimensionLoop(_, _, _, _)
DimensionLoop(items, i, names, validated) ==
    IF i > Len(items)
    THEN [error |-> "", names |-> names, validated |-> validated]
    ELSE LET d == items[i] IN
         IF d.k # "object"
         THEN [error |-> "dimension entry is not an object", names |-> names, validated |-> validated]
         ELSE IF d.name.k # "string" \/ d.name.s \notin VALID_DIMENSIONS
         THEN [error |-> "Invalid dimension name", names |-> names, validated |-> validated]
         ELSE IF d.name.s \in names
         THEN [error |-> "Duplicate dimension", names |-> names, validated |-> validated]
         ELSE IF ~IsFiniteNumber(d.score)
         THEN [error |-> "Dimension has invalid score", names |-> names, validated |-> validated]
         ELSE IF ~IsNonBlankText(d.feedback)
         THEN [error |-> "Dimension has empty or missing feedback", names |-> names, validated |-> validated]
         ELSE DimensionLoop(items, i + 1, names \cup {d.name.s},
                  Append(validated, [name |-> d.name.s, score |-> d.score, feedback |-> d.feedback.c]))

\* The loop over parsed.moments from entry i on.
RECURSIVE MomentLoop(_, _, _)
MomentLoop(items, i, validated) ==
    IF i > Len(items)
    THEN [error |-> "", validated |-> validated]
    ELSE LET m == items[i] IN
         IF m.k # "object"
         THEN [error |-> "moment entry is not an object", validated |-> validated]
         ELSE IF m.type.k # "string" \/ m.type.s \notin VALID_ANNOTATION_TYPES
         THEN [error |-> "Invalid annotation type", validated |-> validated]
         ELSE IF ~IsNonBlankText(m.question)
         THEN [error |-> "Moment has empty or missing question", validated |-> validated]
         ELSE IF ~IsNonBlankText(m.quote)
         THEN [error |-> "Moment has empty or missing quote", validated |-> validated]
         ELSE IF ~IsNonBlankText(m.explanation)
         THEN [error |-> "Moment has empty or missing explanation", validated |-> validated]
         ELSE MomentLoop(items, i + 1,
                  Append(validated, [type |-> m.type.s, question |-> m.question.c,
                                     quote |-> m.quote.c, explanation |-> m.explanation.c]))

\* validateScoringResponse(parsed), with parsed = payload: the ScoringResults returned, or the
\* error thrown; warned holds the self-healing warnings written to the log.
ValidateScoringResponse(payload) ==
    IF payload.k = "null" THEN Thrown("TypeError") ELSE
    LET eloRating == IF payload.k = "object" THEN payload.eloRating ELSE Undefined IN
    IF ~IsFiniteNumber(eloRating) THEN Thrown("eloRating is not a valid number") ELSE
    IF eloRating.n < 100 * Scale \/ eloRating.n > 3000 * Scale
    THEN Thrown("eloRating is outside valid range (100-3000)") ELSE
    LET roundedRating == MathRound(eloRating.n)
        healed == SelfHeal(payload.tier, payload.verdict, roundedRating)
    IN
    IF ~IsNonBlankText(payload.bossSummary) THEN Thrown("bossSummary is missing or empty") ELSE
    IF payload.dimensions.k # "array" THEN Thrown("dimensions is not an array") ELSE
    LET dims == DimensionLoop(payload.dimensions.items, 1, {}, <<>>) IN
    IF dims.error # "" THEN Thrown(dims.error) ELSE
    IF Cardinality(dims.names) # Cardinality(VALID_DIMENSIONS) THEN Thrown("Missing dimensions") ELSE
    IF payload.moments.k # "array" THEN Thrown("moments is not an array") ELSE
    LET moms == MomentLoop(payload.moments.items, 1, <<>>) IN
    IF moms.error # "" THEN Thrown(moms.error) ELSE
    [ok |-> TRUE, error |-> "", warned |-> healed.warned,
     results |-> [eloRating |-> roundedRating,
                  tier |-> healed.tier,
                  verdict |-> healed.verdict,
                  bossSummary |-> payload.bossSummary.c,
                  dimensions |-> dims.validated,
                  moments |-> moms.validated,
                  isPartial |-> IF payload.isPartial.k = "boolean" THEN payload.isPartial.b ELSE FALSE,
                  note |-> IF IsNonBlankText(payload.note) THEN payload.note ELSE Undefined]]

RespondToParsedWithReason(payload) ==
    LET v == ValidateScoringResponse(payload) IN
    IF v.ok
    THEN [status |-> 200, error |-> "", results |-> v.results]
    ELSE [status |-> 500, error |-> v.error, results |-> NoResults]

\* A route that refuses a result without moments.
RespondToParsedRequiringMoments(payload) ==
    LET v == ValidateScoringResponse(payload) IN
    IF v.ok /\ Len(v.results.moments) > 0
    THEN [status |-> 200, error |-> "", results |-> v.results]
    ELSE [status |-> 500, error |-> "Failed to score the interview", results |-> NoResults]

\* Steps 8 and 9 of POST: the validated results, or the opaque 500.
RespondToParsed(payload) ==
    LET v == ValidateScoringResponse(payload) IN
    IF v.ok
    THEN [status |-> 200, error |-> "", results |-> v.results]
    ELSE [status |-> 500, error |-> "Failed to score the interview", results |-> NoResults]

-----------------------------------------------------------------------------
(* Responses of the scoring collaborator, after JSON.parse *)

\* Free texts over a blank and a letter.
RECURSIVE TextsOfLen(_)
TextsOfLen(n) ==
    IF n = 0 THEN {<<>>}
    ELSE { Append(t, ch) : t \in TextsOfLen(n - 1), ch \in {" ", "a"} }

Texts == UNION { TextsOfLen(n) : n \in 0..MaxTextLen }

\* What a text field of the response can hold.
TextVals == { Text(t) : t \in Texts } \cup {Undefined, Num(Scale)}

TierEdges == { ELO_TIERS[i].min : i \in 1..Len(ELO_TIERS) } \cup {ELO_TIERS[Len(ELO_TIERS)].max}

\* Ratings around every tier boundary, in units of 1/Scale, with the two
\* ratings of the end-to-end scenarios.
RatingSamples ==
    { e * Scale + d : e \in TierEdges, d \in (0 - EdgeSpan)..EdgeSpan }
        \cup {1450 * Scale, 2300 * Scale}

RatingVals == { Num(q) : q \in RatingSamples } \cup {NaN, Infinity, Undefined, Null, Sym("1500")}

TierNames == { ELO_TIERS[i].name : i \in 1..Len(ELO_TIERS) }

TierVals == { Sym(t) : t \in TierNames } \cup {Sym("Legendary"), Undefined, Num(Scale)}

VerdictVals == {Sym("HIRED"), Sym("NOT HIRED"), Sym("MAYBE"), Undefined, Bool(TRUE)}

DimensionOrder == <<"communication", "technical", "behavioural", "confidence", "questionsAsked">>

DimensionEntry(name) ==
    [k |-> "object", name |-> Sym(name), score |-> Num(7 * Scale), feedback |-> Text(<<"a">>)]

CanonicalDimensions == [i \in 1..Len(DimensionOrder) |-> DimensionEntry(DimensionOrder[i])]

Reverse(seq) == [i \in 1..Len(seq) |-> seq[Len(seq) + 1 - i]]

RemoveAt(seq, i) == SubSeq(seq, 1, i - 1) \o SubSeq(seq, i + 1, Len(seq))

\* One entry of dimensions with one of its fields changed.
DimensionEntryVals(d) ==
    { [d EXCEPT !.name = v] : v \in { Sym(n) : n \in VALID_DIMENSIONS } \cup {Sym("leadership"), Undefined} }
    \cup { [d EXCEPT !.score = v] :
             v \in {Num(0), Num(11 * Scale), Num(7 * Scale + 2), NaN, Infinity, Undefined, Sym("7")} }
    \cup { [d EXCEPT !.feedback = v] : v \in TextVals }
    \cup { [d EXCEPT !.k = "null"], [d EXCEPT !.k = "string"] }

Array(items) == [k |-> "array", items |-> items]

\* What the dimensions field can hold: the five entries in two orders, with
\* one entry removed, repeated or changed, no entry, or no array.
DimensionsVals ==
    { Array(CanonicalDimensions), Array(Reverse(CanonicalDimensions)), Array(<<>>),
      [k |-> "undefined", items |-> <<>>], [k |-> "object", items |-> <<>>] }
    \cup { Array(RemoveAt(CanonicalDimensions, i)) : i \in 1..Len(DimensionOrder) }
    \cup { Array(Append(CanonicalDimensions, CanonicalDimensions[i])) : i \in 1..Len(DimensionOrder) }
    \cup UNION { { Array([CanonicalDimensions EXCEPT ![i] = e]) : e \in DimensionEntryVals(CanonicalDimensions[i]) }
                 : i \in 1..Len(DimensionOrder) }

MomentEntry(type) ==
    [k |-> "object", type |-> Sym(type), question |-> Text(<<"a">>),
     quote |-> Text(<<"a">>), explanation |-> Text(<<"a">>)]

CanonicalMoments == <<MomentEntry("brilliant"), MomentEntry("blunder"), MomentEntry("neutral")>>

\* One entry of moments with one of its fields changed.
MomentEntryVals(m) ==
    { [m EXCEPT !.type = v] : v \in { Sym(t) : t \in VALID_ANNOTATION_TYPES } \cup {Sym("excellent"), Undefined} }
    \cup { [m EXCEPT !.question = v] : v \in TextVals }
    \cup { [m EXCEPT !.quote = v] : v \in TextVals }
    \cup { [m EXCEPT !.explanation = v] : v \in TextVals }
    \cup { [m EXCEPT !.k = "null"], [m EXCEPT !.k = "string"] }

\* What the moments field can hold: zero to three entries, one of them
\* changed, or no array.
MomentsVals ==
    { Array(SubSeq(CanonicalMoments, 1, n)) : n \in 0..Len(CanonicalMoments) }
    \cup { [k |-> "undefined", items |-> <<>>], [k |-> "object", items |-> <<>>] }
    \cup UNION { { Array([SubSeq(CanonicalMoments, 1, i) EXCEPT ![i] = e]) : e \in MomentEntryVals(CanonicalMoments[i]) }
                 : i \in 1..Len(CanonicalMoments) }

IsPartialVals == {Bool(TRUE), Bool(FALSE), Undefined, Sym("true")}

PayloadFields ==
    {"k", "eloRating", "tier", "verdict", "bossSummary", "dimensions", "moments", "isPartial", "note"}

FieldVals(f) ==
    CASE f = "k" -> {"object", "null", "array"}
      [] f = "eloRating" -> RatingVals
      [] f = "tier" -> TierVals
      [] f = "verdict" -> VerdictVals
      [] f = "bossSummary" -> TextVals
      [] f = "dimensions" -> DimensionsVals
      [] f = "moments" -> MomentsVals
      [] f = "isPartial" -> IsPartialVals
      [] f = "note" -> TextVals

\* The response the prompt asks for.
CanonicalPayload ==
    [k |-> "object", eloRating |-> Num(1450 * Scale), tier |-> Sym("Noteworthy"),
     verdict |-> Sym("NOT HIRED"), bossSummary |-> Text(<<"a">>),
     dimensions |-> Array(CanonicalDimensions), moments |-> Array(CanonicalMoments),
     isPartial |-> Bool(FALSE), note |-> Undefined]

\* The parsed responses of the model: the canonical one with any two of its
\* fields replaced by any of their values.
IsPayload(payload) ==
    \E f1 \in PayloadFields, f2 \in PayloadFields :
        \E v1 \in FieldVals(f1), v2 \in FieldVals(f2) :
            payload = [CanonicalPayload EXCEPT ![f1] = v1, ![f2] = v2]

\* Every whole rating of the valid range, the other fields canonical.
IsWholeRatingPayload(payload) ==
    \E r \in 100..3000 : payload = [CanonicalPayload EXCEPT !.eloRating = Num(r * Scale)]

NoPayload == [CanonicalPayload EXCEPT !.k = "none"]

NoResponse == [status |-> 0, error |-> "", results |-> NoResults]

-----------------------------------------------------------------------------
(* The wizard state and the pipeline's frame *)

\* null, for the fields that hold a string
NullString == "<null>"

\* INITIAL_STATE; analysisPhase 0 stands for null, and transcript and
\* results carry an isNull flag.
INITIAL_STATE ==
    [step |-> "landing", cvText |-> NullString, cvFileName |-> NullString,
     conversationId |-> NullString,
     transcript |-> [isNull |-> TRUE, entries |-> <<>>],
     results |-> [isNull |-> TRUE, value |-> NoResults],
     analysisPhase |-> 0, error |-> NullString, loading |-> FALSE]

NoRun == [pc |-> "idle", id |-> [len |-> 0, wellFormed |-> TRUE], attempt |-> 0, polls |-> 0,
          sleeps |-> <<>>, statuses |-> <<>>, lastStatus |-> 0, error |-> NullString,
          transcript |-> <<>>, scoreStatus |-> 0, scored |-> FALSE]

NoGet == [status |-> 0, error |-> "", ready |-> FALSE, transcript |-> <<>>, upstreamCalled |-> FALSE]

\* The runs of runAnalysisPipeline a page can have in flight at once.
Runs == {1, 2}

\* A run that has not started: its position, the attempt and the
\* conversation it belongs to, and what its awaits gave it.
NoPipeline ==
    [pc |-> "idle", attempt |-> 0, conversationId |-> NullString,
     transcript |-> <<>>, results |-> NoResults, error |-> NullString, phases |-> <<>>]

\* The InterviewStep before it is mounted: the incoming-call screen, no
\* conversation; attempt counts the attempts of the page, from 1.
NoSession == [ringing |-> TRUE, conversationId |-> NullString, attempt |-> 1]

NoText == <<>>

NoGetRequest == [id |-> [len |-> 0, wellFormed |-> TRUE], hasApiKey |-> FALSE, admitted |-> FALSE,
                 upstream |-> [kind |-> "none", http |-> 0, status |-> "", transcript |-> <<>>]]

InitPipeline ==
    /\ wizard = INITIAL_STATE
    /\ run = NoRun
    /\ lastGet = NoGet
    /\ upstreamCalls = 0
    /\ pipelines = [r \in Runs |-> NoPipeline]
    /\ session = NoSession
    /\ responseText = NoText
    /\ getRequest = NoGetRequest

-----------------------------------------------------------------------------
(* State *)

EmptyMap == [k \in {} |-> <<>>]

NoCall == [made |-> FALSE, ip |-> "", at |-> 0,
           success |-> FALSE, remaining |-> 0, liveBefore |-> 0,
           burstIndex |-> 0, burstInWindow |-> FALSE, oldestExpired |-> FALSE, swept |-> FALSE]

NoHandlers == [h \in Handlers |-> [pc |-> "idle", ip |-> "", status |-> 0, at |-> 0]]

\* No request is followed: pc is the position of the request in POST,
\* calls the number of calls of client.messages.create it has made.
NoPost == [pc |-> "idle", bodyIsJson |-> FALSE, transcript |-> Undefined, cvText |-> Undefined,
           hasApiKey |-> FALSE, calls |-> 0, outcome |-> "", served |-> 0]

\* The route modules have served SWEEP_EVERY - MaxCalls requests of callers
\* other than Identifiers, whose keys are not followed; the keys of
\* Identifiers are not in the stores.
InitLimiter ==
    /\ now = 0
    /\ rateLimitStore = [m \in Modules |-> EmptyMap]
    /\ rateLimitCallCount = [m \in Modules |-> SWEEP_EVERY - MaxCalls]
    /\ lastCall = NoCall
    /\ admitted = EmptyMap
    /\ bursts = EmptyMap
    /\ handlers = NoHandlers
    /\ post = NoPost

Init ==
    /\ InitLimiter
    /\ parsed = NoPayload
    /\ response = NoResponse
    /\ InitPipeline

\* The admissions on a key that are inside the window at time t0.
LiveAdmitted(key, t0) ==
    SelectSeq(MapGet(admitted, key), LAMBDA t : t0 - t < WINDOW_MS)

\* The burst a call on the key at time t0 belongs to: a call that finds no
\* admission inside the window starts a burst, any other call extends the
\* burst of the key. The calls of a burst are counted up to MaxRequests + 2.
BurstAt(key, t0) ==
    IF Len(LiveAdmitted(key, t0)) = 0 \/ key \notin DOMAIN bursts
    THEN [start |-> t0, calls |-> 1]
    ELSE [start |-> bursts[key].start,
          calls |-> IF bursts[key].calls > MaxRequests THEN MaxRequests + 2 ELSE bursts[key].calls + 1]

\* One rateLimit call of route module m by identifier ip when Date.now()
\* gives t0, with the history of the call.
DoRateLimitAt(m, ip, t0) ==
    LET key == Key(m, ip)
        r == RateLimit(rateLimitStore[m], rateLimitCallCount[m], ip, MaxRequests, WINDOW_MS, m, t0)
        live == LiveAdmitted(key, t0)
        burst == BurstAt(key, t0)
    IN  /\ rateLimitStore' = [rateLimitStore EXCEPT ![m] = r.store]
        /\ rateLimitCallCount' = [rateLimitCallCount EXCEPT ![m] = r.callCount]
        /\ lastCall' = [made |-> TRUE, ip |-> ip, at |-> t0,
                        success |-> r.success, remaining |-> r.remaining,
                        liveBefore |-> Len(live),
                        burstIndex |-> burst.calls, burstInWindow |-> t0 - burst.start < WINDOW_MS,
                        oldestExpired |-> Len(live) < Len(MapGet(admitted, key)),
                        swept |-> (r.callCount % SWEEP_EVERY = 0)]
        /\ admitted' = MapSet(admitted, key, IF r.success THEN Append(live, t0) ELSE live)
        /\ bursts' = MapSet(bursts, key, burst)

\* One rateLimit call of route module m by identifier ip at the current time.
DoRateLimit(m, ip) == DoRateLimitAt(m, ip, now)

\* Time passes: Date.now() never decreases.
Tick ==
    /\ \E t \in Instants : t > now /\ now' = t
    /\ UNCHANGED <<flowVars, rateLimitStore, rateLimitCallCount, lastCall, admitted, bursts, handlers, post, parsed, response, pipelineVars>>

\* The first statement of POST /api/score-interview: the rate-limit check.
Call ==
    /\ rateLimitCallCount["score-interview"] < SWEEP_EVERY + MaxCalls - 1
    /\ \E ip \in Identifiers : DoRateLimit("score-interview", ip)
    /\ UNCHANGED <<flowVars, now, handlers, post, parsed, response, pipelineVars>>

NextRL == Tick \/ Call

SpecRL == Init /\ [][NextRL]_vars

-----------------------------------------------------------------------------
(* POST /api/score-interview: concurrent requests *)

\* A string of a request body, by its length and whether it holds only
\* white space; the other values of a body field are the scalars above.
Str(len, blank) == [Undefined EXCEPT !.k = "string", !.n = len, !.b = blank]

\* !v for a body field
Falsy(v) ==
    \/ v.k \in {"undefined", "null"}
    \/ v.k = "string" /\ v.n = 0
    \/ v.k = "number" /\ (~v.fin \/ v.n = 0)
    \/ v.k = "boolean" /\ ~v.b

\* v.trim().length === 0 for a body string
TrimsToEmpty(v) == v.n = 0 \/ v.b

TranscriptVals ==
    {Undefined, Num(1), Str(0, TRUE), Str(3, TRUE), Str(10, FALSE),
     Str(MAX_TRANSCRIPT_LENGTH, FALSE), Str(MAX_TRANSCRIPT_LENGTH + 1, FALSE)}

CvTextVals ==
    {Undefined, Null, Num(1), Str(0, TRUE), Str(10, FALSE),
     Str(MAX_CV_TEXT_LENGTH, FALSE), Str(MAX_CV_TEXT_LENGTH + 1, FALSE)}

RefuseRequestAtLimit(transcript, cvText, hasApiKey) ==
    IF Falsy(transcript) \/ transcript.k # "string" \/ TrimsToEmpty(transcript)
    THEN [status |-> 400, error |-> "Interview transcript is required"]
    ELSE IF transcript.n >= MAX_TRANSCRIPT_LENGTH
    THEN [status |-> 400, error |-> "Transcript exceeds maximum length"]
    ELSE IF cvText.k \notin {"undefined", "null"} /\ cvText.k # "string"
    THEN [status |-> 400, error |-> "CV text must be a string"]
    ELSE IF cvText.k = "string" /\ cvText.n >= MAX_CV_TEXT_LENGTH
    THEN [status |-> 400, error |-> "CV text exceeds maximum length"]
    ELSE IF ~hasApiKey
    THEN [status |-> 500, error |-> "Service configuration error"]
    ELSE [status |-> 0, error |-> ""]

\* Steps 2 and 3 of POST: the answer with which the request is refused
\* before the collaborator is called, or status 0 when it goes on.
RefuseRequest(transcript, cvText, hasApiKey) ==
    IF Falsy(transcript) \/ transcript.k # "string" \/ TrimsToEmpty(transcript)
    THEN [status |-> 400, error |-> "Interview transcript is required"]
    ELSE IF transcript.n > MAX_TRANSCRIPT_LENGTH
    THEN [status |-> 400, error |-> "Transcript exceeds maximum length"]
    ELSE IF cvText.k \notin {"undefined", "null"} /\ cvText.k # "string"
    THEN [status |-> 400, error |-> "CV text must be a string"]
    ELSE IF cvText.k = "string" /\ cvText.n > MAX_CV_TEXT_LENGTH
    THEN [status |-> 400, error |-> "CV text exceeds maximum length"]
    ELSE IF ~hasApiKey
    THEN [status |-> 500, error |-> "Service configuration error"]
    ELSE [status |-> 0, error |-> ""]

\* What client.messages.create can do: throw, or return a text that is
\* empty, holds no JSON object, holds a broken one, or parses.
CollaboratorOutcomes == {"throws", "empty", "no json", "bad json", "json"}

\* Steps 6 to 9 of POST and its catch-all, on the collaborator's outcome.
RespondToOutcome(outcome, payload) ==
    IF outcome = "throws"
    THEN [status |-> 500, error |-> "Something went wrong while scoring your interview. Please try again.",
          results |-> NoResults]
    ELSE IF outcome # "json"
    THEN [status |-> 500, error |-> "Failed to score the interview", results |-> NoResults]
    ELSE RespondToParsed(payload)

\* The parsed responses of the concurrent requests: one that passes the
\* validator and one that does not.
SettledPayloads == {CanonicalPayload, [CanonicalPayload EXCEPT !.eloRating = NaN]}

\* What steps 2 and 3 answer to the request bodies and configurations.
Refusals ==
    { RefuseRequest(transcript, cvText, hasApiKey) :
          transcript \in TranscriptVals, cvText \in CvTextVals, hasApiKey \in BOOLEAN }

\* What steps 6 to 9 answer to the collaborator's outcomes.
Answers ==
    { RespondToOutcome(outcome, payload) : outcome \in CollaboratorOutcomes, payload \in SettledPayloads }

\* A request arrives: POST runs rateLimit and answers 429 or goes on to
\* await req.json().
Arrive(h) ==
    /\ handlers[h].pc = "idle"
    /\ IF h = 1 THEN TRUE ELSE handlers[h - 1].pc # "idle"
    /\ \E ip \in Identifiers :
           LET r == RateLimit(rateLimitStore["score-interview"], rateLimitCallCount["score-interview"],
                              ip, MaxRequests, WINDOW_MS, "score-interview", now)
           IN  /\ DoRateLimit("score-interview", ip)
               /\ handlers' = [handlers EXCEPT ![h] =
                      IF r.success
                      THEN [pc |-> "body", ip |-> ip, status |-> 0, at |-> now]
                      ELSE [pc |-> "done", ip |-> ip, status |-> 429, at |-> now]]
    /\ UNCHANGED <<flowVars, now, parsed, response, pipelineVars, post>>

\* req.json() resolves: the input and the API key are checked, and the
\* request is refused or the collaborator is called.
ReadBody(h) ==
    /\ handlers[h].pc = "body"
    /\ \E refusal \in Refusals :
           handlers' = [handlers EXCEPT ![h] =
               IF refusal.status # 0
               THEN [@ EXCEPT !.pc = "done", !.status = refusal.status]
               ELSE [@ EXCEPT !.pc = "claude"]]
    /\ UNCHANGED <<flowVars, now, rateLimitStore, rateLimitCallCount, lastCall, admitted, bursts, parsed, response, pipelineVars, post>>

\* client.messages.create settles: the response is parsed, validated and
\* answered.
CollaboratorSettles(h) ==
    /\ handlers[h].pc = "claude"
    /\ \E answer \in Answers :
           handlers' = [handlers EXCEPT ![h] = [@ EXCEPT !.pc = "done", !.status = answer.status]]
    /\ UNCHANGED <<flowVars, now, rateLimitStore, rateLimitCallCount, lastCall, admitted, bursts, parsed, response, pipelineVars, post>>

NextConc ==
    \/ Tick
    \/ \E h \in Handlers : Arrive(h)
    \/ \E h \in Handlers : ReadBody(h)
    \/ \E h \in Handlers : CollaboratorSettles(h)

SpecConc == Init /\ [][NextConc]_vars

-----------------------------------------------------------------------------
(* POST /api/score-interview: one request step by step *)

\* The caller of the followed requests and of the pipeline's requests.
ClientIp == "10.0.0.1"

\* The parsed responses of the collaborator to the followed request: the
\* response the prompt asks for, with any one of its fields replaced.
OneFieldPayloads ==
    UNION { { [CanonicalPayload EXCEPT ![f] = v] : v \in FieldVals(f) } : f \in PayloadFields }

RateLimitMessage == "Too many requests. Please wait a moment and try again."

CatchAllMessage == "Something went wrong while scoring your interview. Please try again."

Respond(status, error) == [status |-> status, error |-> error, results |-> NoResults]

\* Step 1 of POST for a new request: the rate-limit check, answered 429
\* or followed by await req.json().
PostArrives ==
    /\ post.pc \in {"idle", "done"}
    /\ rateLimitCallCount["score-interview"] < SWEEP_EVERY + MaxCalls - 1
    /\ LET r == RateLimit(rateLimitStore["score-interview"], rateLimitCallCount["score-interview"],
                          ClientIp, MaxRequests, WINDOW_MS, "score-interview", now)
           request == [NoPost EXCEPT !.served = post.served + 1]
       IN  /\ DoRateLimit("score-interview", ClientIp)
           /\ IF r.success
              THEN /\ post' = [request EXCEPT !.pc = "body"]
                   /\ response' = NoResponse
              ELSE /\ post' = [request EXCEPT !.pc = "done", !.outcome = "denied"]
                   /\ response' = Respond(429, RateLimitMessage)
    /\ parsed' = NoPayload
    /\ UNCHANGED <<flowVars, now, handlers, pipelineVars>>

\* Steps 2 to 5 of POST: req.json() settles with the body of the request,
\* or throws on a body that is not JSON (caught by the catch-all); the input
\* and the API key are checked and the request is refused, or
\* client.messages.create is called.
PostReadsBody ==
    /\ post.pc = "body"
    /\ \E bodyIsJson \in BOOLEAN, transcript \in TranscriptVals, cvText \in CvTextVals, hasApiKey \in BOOLEAN :
           LET refusal == RefuseRequest(transcript, cvText, hasApiKey)
               request == [post EXCEPT !.bodyIsJson = TRUE, !.transcript = transcript, !.cvText = cvText,
                                       !.hasApiKey = hasApiKey]
           IN
           IF ~bodyIsJson
           THEN /\ post' = [post EXCEPT !.pc = "done", !.outcome = "body throws", !.hasApiKey = hasApiKey]
                /\ response' = Respond(500, CatchAllMessage)
           ELSE IF refusal.status # 0
           THEN /\ post' = [request EXCEPT !.pc = "done", !.outcome = "refused"]
                /\ response' = Respond(refusal.status, refusal.error)
           ELSE /\ post' = [request EXCEPT !.pc = "claude", !.calls = @ + 1]
                /\ UNCHANGED response
    /\ UNCHANGED <<flowVars, now, rateLimitStore, rateLimitCallCount, lastCall, admitted, bursts, handlers,
                   parsed, pipelineVars>>

PostCollaboratorSettlesRetrying ==
    /\ post.pc = "claude"
    /\ \E outcome \in CollaboratorOutcomes :
           \E payload \in (IF outcome = "json" THEN OneFieldPayloads ELSE {NoPayload}) :
               IF outcome = "throws" /\ post.calls < 3
               THEN /\ post' = [post EXCEPT !.calls = @ + 1]
                    /\ UNCHANGED <<parsed, response>>
               ELSE /\ post' = [post EXCEPT !.pc = "done", !.outcome = outcome]
                    /\ parsed' = payload
                    /\ response' = RespondToOutcome(outcome, payload)
    /\ UNCHANGED <<flowVars, now, rateLimitStore, rateLimitCallCount, lastCall, admitted, bursts, handlers,
                   pipelineVars>>

\* Steps 6 to 9 of POST and its catch-all: client.messages.create settles,
\* the text is extracted, parsed and validated, and the request is answered.
PostCollaboratorSettles ==
    /\ post.pc = "claude"
    /\ \E outcome \in CollaboratorOutcomes :
           \E payload \in (IF outcome = "json" THEN OneFieldPayloads ELSE {NoPayload}) :
               /\ post' = [post EXCEPT !.pc = "done", !.outcome = outcome]
               /\ parsed' = payload
               /\ response' = RespondToOutcome(outcome, payload)
    /\ UNCHANGED <<flowVars, now, rateLimitStore, rateLimitCallCount, lastCall, admitted, bursts, handlers,
                   pipelineVars>>

NextPost == PostArrives \/ PostReadsBody \/ PostCollaboratorSettles

SpecPost == Init /\ [][NextPost]_vars

-----------------------------------------------------------------------------
(* GET /api/conversations/[id] *)

\* A conversation id, by its length and whether all its characters are
\* letters, digits, hyphens or underscores.
ConversationIds ==
    { [len |-> n, wellFormed |-> w] : n \in {9, 10, 50, 51}, w \in {TRUE} }
        \cup { [len |-> 20, wellFormed |-> FALSE] }

MatchesIdPatternUnbounded(id) == id.wellFormed /\ id.len >= 10

\* CONVERSATION_ID_PATTERN.test(id)
MatchesIdPattern(id) == id.wellFormed /\ id.len >= 10 /\ id.len <= 50

RawRoles == {"agent", "user", "system"}

\* The transcripts of the ElevenLabs API: up to two entries; the message of
\* an entry is named by its position.
RawTranscripts ==
    {<<>>}
        \cup { <<[role |-> r, message |-> 1]>> : r \in RawRoles }
        \cup { <<[role |-> r1, message |-> 1], [role |-> r2, message |-> 2]>> : r1 \in RawRoles, r2 \in RawRoles }

\* What the ElevenLabs API can answer: the fetch rejects, or it answers
\* with an HTTP status and, when the status is 200, a conversation status
\* and a transcript.
UpstreamAnswers ==
    { [kind |-> "rejects", http |-> 0, status |-> "", transcript |-> <<>>] }
        \cup { [kind |-> "answers", http |-> h, status |-> "", transcript |-> <<>>] : h \in {401, 404, 500} }
        \cup { [kind |-> "answers", http |-> 200, status |-> st, transcript |-> <<>>] :
                   st \in {"initiated", "in-progress", "processing", "failed"} }
        \cup { [kind |-> "answers", http |-> 200, status |-> st, transcript |-> tr] :
                   st \in {"done", "finished"}, tr \in RawTranscripts }

MapTranscriptKeepingRoles(raw) ==
    [i \in 1..Len(raw) |-> [role |-> raw[i].role, message |-> raw[i].message]]

\* The mapping of the raw entries to TranscriptEntry.
MapTranscript(raw) ==
    [i \in 1..Len(raw) |->
        [role |-> IF raw[i].role = "agent" THEN "agent" ELSE "user", message |-> raw[i].message]]

GetAnswer(status, error) ==
    [status |-> status, error |-> error, ready |-> FALSE, transcript |-> <<>>, upstreamCalled |-> FALSE]

GetAfterRateLimitReadyWhenAnswered(id, hasApiKey, upstream) ==
    IF ~MatchesIdPattern(id) THEN GetAnswer(400, "Invalid conversation ID format")
    ELSE IF ~hasApiKey THEN GetAnswer(500, "Service configuration error")
    ELSE IF upstream.kind # "answers" \/ upstream.http < 200 \/ upstream.http > 299
    THEN [GetAnswer(500, "Failed to fetch transcript") EXCEPT !.upstreamCalled = TRUE]
    ELSE [status |-> 200, error |-> "", ready |-> TRUE,
          transcript |-> MapTranscript(upstream.transcript), upstreamCalled |-> TRUE]

\* Steps 2 to 5 of GET, after an admitted rate-limit check.
GetAfterRateLimit(id, hasApiKey, upstream) ==
    IF ~MatchesIdPattern(id) THEN GetAnswer(400, "Invalid conversation ID format")
    ELSE IF ~hasApiKey THEN GetAnswer(500, "Service configuration error")
    ELSE IF upstream.kind = "rejects"
    THEN [GetAnswer(500, "Failed to fetch transcript") EXCEPT !.upstreamCalled = TRUE]
    ELSE IF upstream.http = 404
    THEN [GetAnswer(404, "Conversation not found") EXCEPT !.upstreamCalled = TRUE]
    ELSE IF upstream.http < 200 \/ upstream.http > 299
    THEN [GetAnswer(500, "Failed to fetch transcript") EXCEPT !.upstreamCalled = TRUE]
    ELSE IF upstream.kind = "malformed"
    THEN [GetAnswer(500, "Failed to fetch transcript") EXCEPT !.upstreamCalled = TRUE]
    ELSE IF upstream.status \in {"done", "finished"}
    THEN [status |-> 200, error |-> "", ready |-> TRUE,
          transcript |-> MapTranscript(upstream.transcript), upstreamCalled |-> TRUE]
    ELSE [GetAnswer(202, "") EXCEPT !.upstreamCalled = TRUE]

\* A route that checks the conversation id before the rate limit.
GetRouteValidatingFirst(admittedByLimiter, id, hasApiKey, upstream) ==
    IF ~MatchesIdPattern(id)
    THEN GetAnswer(400, "Invalid conversation ID format")
    ELSE IF ~admittedByLimiter
    THEN GetAnswer(429, "Too many requests. Please wait a moment and try again.")
    ELSE GetAfterRateLimit(id, hasApiKey, upstream)

\* GET as a whole, from the result of its rate-limit check.
GetRoute(admittedByLimiter, id, hasApiKey, upstream) ==
    IF ~admittedByLimiter
    THEN GetAnswer(429, "Too many requests. Please wait a moment and try again.")
    ELSE GetAfterRateLimit(id, hasApiKey, upstream)

-----------------------------------------------------------------------------
(* lib/elevenlabs: fetchTranscript *)

RECURSIVE Pow(_, _)
Pow(base, e) == IF e = 0 THEN 1 ELSE base * Pow(base, e - 1)

BackoffDelayNextPower(attempt) ==
    (BASE_DELAY_MS * Pow(BACKOFF_NUM, attempt + 1)) \div Pow(BACKOFF_DEN, attempt + 1)

\* BASE_DELAY_MS * BACKOFF_MULTIPLIER ** attempt
BackoffDelay(attempt) == (BASE_DELAY_MS * Pow(BACKOFF_NUM, attempt)) \div Pow(BACKOFF_DEN, attempt)

\* What the client's fetch of the route can give: the route's answer
\* ("delivered"), a rejected fetch ("rejects"), or an answer of the given
\* status whose body is not JSON, as a gateway in between gives.
Deliveries ==
    { [kind |-> k, status |-> 0] : k \in {"delivered", "rejects"} }
        \cup { [kind |-> "foreign", status |-> st] : st \in {200, 202, 502} }

\* What the client sees of the answer: its status and, where the body is
\* JSON, the error and the transcript of the body.
Seen(delivery, answer) ==
    IF delivery.kind = "delivered"
    THEN [status |-> answer.status, json |-> TRUE, error |-> answer.error, transcript |-> answer.transcript]
    ELSE [status |-> delivery.status, json |-> FALSE, error |-> "", transcript |-> <<>>]

FetchThrows(frame, status, message) ==
    [frame EXCEPT !.pc = "threw", !.lastStatus = status, !.error = message]

RetryOrExhaustFallingThrough(frame, status) ==
    IF frame.attempt < MAX_ATTEMPTS - 1
    THEN [frame EXCEPT !.pc = "sleep", !.lastStatus = status,
                       !.sleeps = Append(@, BackoffDelay(frame.attempt))]
    ELSE FetchThrows([frame EXCEPT !.attempt = @ + 1], status,
                     "Failed to fetch transcript (" \o ToString(status) \o ")")

\* A 202 branch that sleeps after the last attempt too.
RetryOrExhaustSleepingAlways(frame, status) ==
    IF frame.attempt < MAX_ATTEMPTS
    THEN [frame EXCEPT !.pc = "sleep", !.lastStatus = status,
                       !.sleeps = Append(@, BackoffDelay(frame.attempt))]
    ELSE FetchThrows([frame EXCEPT !.attempt = @ + 1], status,
                     "Transcript is not yet available. Please wait a moment and try again.")

\* The 202 branch: sleep and continue, or leave the loop after the last
\* attempt and throw.
RetryOrExhaust(frame, status) ==
    IF frame.attempt < MAX_ATTEMPTS - 1
    THEN [frame EXCEPT !.pc = "sleep", !.lastStatus = status,
                       !.sleeps = Append(@, BackoffDelay(frame.attempt))]
    ELSE FetchThrows([frame EXCEPT !.attempt = @ + 1], status,
                     "Transcript is not yet available. Please wait a moment and try again.")

ErrorResponseRetryingServerErrors(frame, seen) ==
    IF seen.status >= 500
    THEN RetryOrExhaust(frame, seen.status)
    ELSE FetchThrows(frame, seen.status,
                     IF seen.json /\ seen.error # ""
                     THEN seen.error
                     ELSE "Failed to fetch transcript (" \o ToString(seen.status) \o ")")

\* The error branch: the error of the body, or the fallback message.
ErrorResponse(frame, seen) ==
    FetchThrows(frame, seen.status,
                IF seen.json /\ seen.error # ""
                THEN seen.error
                ELSE "Failed to fetch transcript (" \o ToString(seen.status) \o ")")

AfterResponseRetrying429(frame, seen) ==
    IF seen.status = 200
    THEN IF seen.json
         THEN [frame EXCEPT !.pc = "returned", !.lastStatus = 200, !.transcript = seen.transcript]
         ELSE FetchThrows(frame, 200, "Failed to fetch transcript - unexpected server response.")
    ELSE IF seen.status \in {202, 429}
    THEN RetryOrExhaust(frame, seen.status)
    ELSE ErrorResponse(frame, seen)

AfterResponseAwaitingEntries(frame, seen) ==
    IF seen.status = 200 /\ seen.json /\ seen.transcript # <<>>
    THEN [frame EXCEPT !.pc = "returned", !.lastStatus = 200, !.transcript = seen.transcript]
    ELSE IF seen.status = 200 /\ ~seen.json
    THEN FetchThrows(frame, 200, "Failed to fetch transcript - unexpected server response.")
    ELSE IF seen.status \in {200, 202}
    THEN RetryOrExhaust(frame, seen.status)
    ELSE ErrorResponse(frame, seen)

\* The body of the loop of fetchTranscript after its fetch resolved.
AfterResponse(frame, seen) ==
    IF seen.status = 200
    THEN IF seen.json
         THEN [frame EXCEPT !.pc = "returned", !.lastStatus = 200, !.transcript = seen.transcript]
         ELSE FetchThrows(frame, 200, "Failed to fetch transcript - unexpected server response.")
    ELSE IF seen.status = 202
    THEN RetryOrExhaust(frame, 202)
    ELSE ErrorResponse(frame, seen)

\* One turn of the loop of fetchTranscript after its fetch settled: the
\* frame of the call with its new position.  (The dash of the two messages
\* is written as a hyphen.)
AfterPoll(frame, delivery, answer) ==
    IF delivery.kind = "rejects"
    THEN FetchThrows(frame, 0, "Network error - please check your connection and try again.")
    ELSE AfterResponse(frame, Seen(delivery, answer))

-----------------------------------------------------------------------------
(* app/page: runAnalysisPipeline *)

\* handleConversationEnd: the conversation id is stored and the pipeline
\* starts: step "analysis", phase 1, and the first poll is due.
StartPipeline ==
    /\ run.pc = "idle"
    /\ \E id \in ConversationIds :
           /\ run' = [NoRun EXCEPT !.pc = "fetch", !.id = id]
           /\ wizard' = [wizard EXCEPT !.conversationId = "id", !.step = "analysis",
                                       !.error = NullString, !.analysisPhase = 1]
    /\ UNCHANGED <<flowVars, limiterVars, parsed, response, lastGet, upstreamCalls>>

\* The frame after a poll, with the status the poll saw (0: the fetch
\* rejected) added to the history of the call.
Polled(frame) == [frame EXCEPT !.statuses = Append(@, frame.lastStatus)]

\* The time a request can take to reach the route.
Latencies == {0, WINDOW_MS}

\* One poll of fetchTranscript: the request reaches the route or not, the
\* route answers after its rate-limit check, and the loop takes its turn.
Poll ==
    /\ run.pc = "fetch"
    /\ \E delivery \in Deliveries, latency \in Latencies :
           /\ now' = now + latency
           /\ IF delivery.kind = "delivered"
              THEN \E hasApiKey \in BOOLEAN, upstream \in UpstreamAnswers :
                       LET r == RateLimit(rateLimitStore["conversations"], rateLimitCallCount["conversations"],
                                          ClientIp, MaxRequests, WINDOW_MS, "conversations", now')
                           answer == GetRoute(r.success, run.id, hasApiKey, upstream)
                       IN  /\ DoRateLimitAt("conversations", ClientIp, now')
                           /\ lastGet' = answer
                           /\ upstreamCalls' = upstreamCalls + (IF answer.upstreamCalled THEN 1 ELSE 0)
                           /\ run' = Polled(AfterPoll([run EXCEPT !.polls = @ + 1], delivery, answer))
              ELSE /\ run' = Polled(AfterPoll([run EXCEPT !.polls = @ + 1], delivery, NoGet))
                   /\ UNCHANGED <<rateLimitStore, rateLimitCallCount, lastCall, admitted, bursts,
                                  lastGet, upstreamCalls, post>>
    /\ UNCHANGED <<flowVars, handlers, post, parsed, response, wizard>>

\* The backoff sleep ends and the next attempt begins.
Wake ==
    /\ run.pc = "sleep"
    /\ now' = now + run.sleeps[Len(run.sleeps)]
    /\ run' = [run EXCEPT !.pc = "fetch", !.attempt = @ + 1]
    /\ UNCHANGED <<flowVars, rateLimitStore, rateLimitCallCount, lastCall, admitted, bursts, handlers, post,
                   parsed, response, wizard, lastGet, upstreamCalls>>

\* fetchTranscript returned, and the pipeline goes to phase 3 at once.
TranscriptRetrievedSkippingPhase ==
    /\ run.pc = "returned"
    /\ wizard' = [wizard EXCEPT !.transcript = [isNull |-> FALSE, entries |-> run.transcript],
                                !.analysisPhase = 3]
    /\ run' = [run EXCEPT !.pc = "scoring"]
    /\ UNCHANGED <<flowVars, limiterVars, parsed, response, lastGet, upstreamCalls>>

\* fetchTranscript returned: the transcript is stored, phase 2 is set and
\* the scoring request is sent.
TranscriptRetrieved ==
    /\ run.pc = "returned"
    /\ wizard' = [wizard EXCEPT !.transcript = [isNull |-> FALSE, entries |-> run.transcript],
                                !.analysisPhase = 2]
    /\ run' = [run EXCEPT !.pc = "scoring"]
    /\ UNCHANGED <<flowVars, limiterVars, parsed, response, lastGet, upstreamCalls>>

\* fetchTranscript threw, and the catch block leaves the phase as it is.
RetrievalFailedKeepingPhase ==
    /\ run.pc = "threw"
    /\ wizard' = [wizard EXCEPT !.error = run.error]
    /\ run' = [run EXCEPT !.pc = "failed"]
    /\ UNCHANGED <<flowVars, limiterVars, parsed, response, lastGet, upstreamCalls>>

\* fetchTranscript threw: the catch block sets the error and clears the
\* phase.
RetrievalFailed ==
    /\ run.pc = "threw"
    /\ wizard' = [wizard EXCEPT !.error = run.error, !.analysisPhase = 0]
    /\ run' = [run EXCEPT !.pc = "failed"]
    /\ UNCHANGED <<flowVars, limiterVars, parsed, response, lastGet, upstreamCalls>>

\* The answers of POST /api/score-interview to the pipeline's request.
ScoreAnswers ==
    { RespondToOutcome(outcome, payload) : outcome \in CollaboratorOutcomes, payload \in SettledPayloads }
        \cup { [status |-> st.status, error |-> st.error, results |-> NoResults] :
                   st \in { refusal \in Refusals : refusal.status # 0 } }
        \cup { [status |-> 429, error |-> "Too many requests. Please wait a moment and try again.",
                results |-> NoResults] }

\* The length of "Interviewer" and of "Candidate".
LabelLength(role) == IF role = "agent" THEN 11 ELSE 9

\* The lengths a message of an entry is given: a short message, and one
\* that alone is as long as the longest transcript the route accepts.
MessageLengths == {1, MAX_TRANSCRIPT_LENGTH}

\* The length of entries.map(label + ": " + message).join("\n\n") from
\* entry i on, every message being of the given length.
RECURSIVE JoinedLength(_, _, _)
JoinedLength(entries, i, messageLength) ==
    IF i > Len(entries) THEN 0
    ELSE LabelLength(entries[i].role) + 2 + messageLength
             + (IF i < Len(entries) THEN 2 ELSE 0)
             + JoinedLength(entries, i + 1, messageLength)

\* A text that opens with a heading, whatever the entries.
TranscriptTextWithHeading(entries, messageLength) ==
    Str(10 + JoinedLength(entries, 1, messageLength), FALSE)

\* transcriptText: empty for no entries, and never blank otherwise.
TranscriptText(entries, messageLength) ==
    Str(JoinedLength(entries, 1, messageLength), Len(entries) = 0)

\* snap.cvText || "": the pipeline always sends a string.
PipelineCvTexts == { v \in CvTextVals : v.k = "string" }

\* What POST /api/score-interview can answer to the request the pipeline
\* sends for these entries, and whether it called the collaborator: 429
\* when the limiter denies the caller, else the refusal of steps 2 and 3 or
\* the answer of steps 6 to 9.
ScoringOutcomes(entries) ==
    LET checks == { RefuseRequest(TranscriptText(entries, messageLength), cvText, hasApiKey) :
                        messageLength \in MessageLengths, cvText \in PipelineCvTexts, hasApiKey \in BOOLEAN }
    IN  { [answer |-> Respond(429, RateLimitMessage), called |-> FALSE] }
            \cup { [answer |-> Respond(refusal.status, refusal.error), called |-> FALSE] :
                       refusal \in { check \in checks : check.status # 0 } }
            \cup (IF \E check \in checks : check.status = 0
                  THEN { [answer |-> answer, called |-> TRUE] : answer \in Answers }
                  ELSE {})

\* The scoring request settles: the results are stored and phase 3 is set,
\* or the catch block sets the error and clears the phase.
ScoringSettles ==
    /\ run.pc = "scoring"
    /\ \E settled \in ScoringOutcomes(run.transcript) :
           LET answer == settled.answer IN
           IF answer.status = 200
           THEN /\ wizard' = [wizard EXCEPT !.results = [isNull |-> FALSE, value |-> answer.results],
                                            !.analysisPhase = 3]
                /\ run' = [run EXCEPT !.pc = "dwell", !.scoreStatus = answer.status, !.scored = settled.called]
           ELSE /\ wizard' = [wizard EXCEPT !.error = answer.error, !.analysisPhase = 0]
                /\ run' = [run EXCEPT !.pc = "failed", !.error = answer.error,
                                      !.scoreStatus = answer.status, !.scored = settled.called]
    /\ UNCHANGED <<flowVars, limiterVars, parsed, response, lastGet, upstreamCalls>>

\* A dwell that ends without the step being advanced.
DwellEndsWithoutStep ==
    /\ run.pc = "dwell"
    /\ run' = [run EXCEPT !.pc = "done"]
    /\ UNCHANGED <<wizard, flowVars, limiterVars, parsed, response, lastGet, upstreamCalls>>

\* The deliberating dwell ends: step "results".
DwellEnds ==
    /\ run.pc = "dwell"
    /\ wizard' = [wizard EXCEPT !.step = "results", !.error = NullString]
    /\ run' = [run EXCEPT !.pc = "done"]
    /\ UNCHANGED <<flowVars, limiterVars, parsed, response, lastGet, upstreamCalls>>

NextFetch ==
    \/ StartPipeline
    \/ Poll
    \/ Wake
    \/ TranscriptRetrieved
    \/ RetrievalFailed
    \/ ScoringSettles
    \/ DwellEnds

SpecFetch == Init /\ [][NextFetch]_vars

-----------------------------------------------------------------------------
(* The validator applied to the collaborator's responses *)

InitValidate ==
    /\ InitLimiter
    /\ InitPipeline
    /\ IsPayload(parsed)
    /\ response = NoResponse

\* One field of the canonical response replaced.
InitHeal ==
    /\ InitLimiter
    /\ InitPipeline
    /\ \E f \in PayloadFields : \E v \in FieldVals(f) : parsed = [CanonicalPayload EXCEPT ![f] = v]
    /\ response = NoResponse

InitTier ==
    /\ InitLimiter
    /\ InitPipeline
    /\ IsWholeRatingPayload(parsed)
    /\ response = NoResponse

\* Steps 8 and 9 of POST on the parsed response.
Validate ==
    /\ response.status = 0
    /\ parsed.k # "none"
    /\ response' = RespondToParsed(parsed)
    /\ UNCHANGED <<flowVars, parsed, limiterVars, pipelineVars>>

NextValidate == Validate

SpecValidate == InitValidate /\ [][NextValidate]_vars

SpecTier == InitTier /\ [][NextValidate]_vars

SpecHeal == InitHeal /\ [][NextValidate]_vars

-----------------------------------------------------------------------------
(* Properties of the validator *)

\* The six bands as the specification lists them.
InBand(r, lo, hi) == lo <= r /\ r <= hi

BandOf(r) ==
    CASE InBand(r, 100, 599) -> "Wasting My Time"
      [] InBand(r, 600, 999) -> "Shows a Pulse"
      [] InBand(r, 1000, 1399) -> "Adequate"
      [] InBand(r, 1400, 1799) -> "Noteworthy"
      [] InBand(r, 1800, 2199) -> "Impressive"
      [] InBand(r, 2200, 3000) -> "Hired Material"
      [] OTHER -> "no band"

HasLetter(chars) == \E i \in 1..Len(chars) : chars[i] # " "

Accepted == response.status = 200

Rejected == response.status = 500 /\ response.error = "Failed to score the interview"

\* Every invariant of a ScoringResult.
IsScoringResult(r) ==
    /\ r.eloRating \in 100..3000
    /\ r.tier = BandOf(r.eloRating)
    /\ r.verdict \in {"HIRED", "NOT HIRED"}
    /\ r.verdict = "HIRED" <=> r.eloRating >= 2200
    /\ r.verdict = "HIRED" <=> r.tier = "Hired Material"
    /\ HasLetter(r.bossSummary)
    /\ Len(r.dimensions) = 5
    /\ { r.dimensions[i].name : i \in 1..Len(r.dimensions) } =
           {"communication", "technical", "behavioural", "confidence", "questionsAsked"}
    /\ \A i \in 1..Len(r.dimensions) :
           /\ r.dimensions[i].score.k = "number" /\ r.dimensions[i].score.fin
           /\ HasLetter(r.dimensions[i].feedback)
    /\ \A i \in 1..Len(r.moments) :
           /\ r.moments[i].type \in {"brilliant", "good", "neutral", "inaccuracy", "mistake", "blunder"}
           /\ HasLetter(r.moments[i].question)
           /\ HasLetter(r.moments[i].quote)
           /\ HasLetter(r.moments[i].explanation)
    /\ r.isPartial \in BOOLEAN
    /\ r.note = Undefined \/ (r.note.k = "string" /\ HasLetter(r.note.c))

\* C6: every value validateScoringResponse returns, whatever the raw
\* payload, satisfies all the invariants of a ScoringResult at once.
C6_ResultInvariants == Accepted => IsScoringResult(response.results)

\* A payload whose tier and verdict were both wrong and whose moments, note
\* and partial flag are present was accepted.
C6_Witness ==
    /\ Accepted
    /\ parsed.tier.k = "string" /\ parsed.tier.s # response.results.tier
    /\ Len(response.results.moments) = 3
    /\ Len(response.results.dimensions) = 5

\* C7: for every whole rating r of 100..3000 exactly one entry of ELO_TIERS
\* holds r, deriveTierFromRating returns that entry's name, and the entries
\* are the six bands 100-599, 600-999, 1000-1399, 1400-1799, 1800-2199,
\* 2200-3000.
C7_TierPartition ==
    response.status # 0 =>
        LET r == parsed.eloRating.n \div Scale
            holding == { i \in 1..Len(ELO_TIERS) : ELO_TIERS[i].min <= r /\ r <= ELO_TIERS[i].max }
        IN  /\ Accepted
            /\ Cardinality(holding) = 1
            /\ \A i \in holding : response.results.tier = ELO_TIERS[i].name
            /\ response.results.tier = BandOf(r)
            /\ DeriveTierFromRating(r) = response.results.tier

\* The lower edge of the second band has been given its tier.
C7_Witness ==
    /\ Accepted
    /\ parsed.eloRating.n = 600 * Scale
    /\ response.results.tier = "Shows a Pulse"

\* C8: the verdict returned is HIRED if and only if the rounded rating is
\* at least 2200, whatever the raw verdict field holds: 2199 gives NOT
\* HIRED and 2200 gives HIRED.
C8_VerdictFromRating ==
    Accepted =>
        /\ response.results.verdict = "HIRED" <=> response.results.eloRating >= 2200
        /\ response.results.verdict = "NOT HIRED" <=> response.results.eloRating < 2200
        /\ parsed.eloRating.n = 2199 * Scale => response.results.verdict = "NOT HIRED"
        /\ parsed.eloRating.n = 2200 * Scale => response.results.verdict = "HIRED"
        /\ 2 * parsed.eloRating.n >= 2 * 2200 * Scale - Scale => response.results.verdict = "HIRED"
        /\ 2 * parsed.eloRating.n < 2 * 2200 * Scale - Scale => response.results.verdict = "NOT HIRED"

\* A rating of exactly 2200 with a raw verdict outside the two categories
\* was accepted as HIRED.
C8_Witness ==
    /\ Accepted
    /\ parsed.eloRating.n = 2200 * Scale
    /\ parsed.verdict = Sym("MAYBE")
    /\ response.results.verdict = "HIRED"

\* C9: two payloads that differ only in their tier and verdict fields are
\* both rejected or give identical results; a disagreeing tier or verdict
\* never causes a rejection.
C9_TierVerdictIgnored ==
    response.status # 0 =>
        \A t \in TierVals, v \in VerdictVals :
            RespondToParsed([parsed EXCEPT !.tier = t, !.verdict = v]) = response

\* A payload whose raw tier names another band was accepted.
C9_Witness ==
    /\ Accepted
    /\ parsed.tier = Sym("Impressive")
    /\ response.results.tier = "Noteworthy"
    /\ response.results.verdict = "NOT HIRED"

\* The defects of a raw payload that the validator must reject.
FewerThanFiveDimensions(p) == p.dimensions.k # "array" \/ Len(p.dimensions.items) < 5

DuplicateDimensionKey(p) ==
    /\ p.dimensions.k = "array"
    /\ \E i, j \in 1..Len(p.dimensions.items) :
           /\ i < j
           /\ p.dimensions.items[i].k = "object" /\ p.dimensions.items[j].k = "object"
           /\ p.dimensions.items[i].name.k = "string"
           /\ p.dimensions.items[i].name = p.dimensions.items[j].name

ForeignDimensionName(p) ==
    /\ p.dimensions.k = "array"
    /\ \E i \in 1..Len(p.dimensions.items) :
           \/ p.dimensions.items[i].k # "object"
           \/ p.dimensions.items[i].name.k # "string"
           \/ p.dimensions.items[i].name.s \notin
                  {"communication", "technical", "behavioural", "confidence", "questionsAsked"}

UnknownMomentType(p) ==
    /\ p.moments.k = "array"
    /\ \E i \in 1..Len(p.moments.items) :
           \/ p.moments.items[i].k # "object"
           \/ p.moments.items[i].type.k # "string"
           \/ p.moments.items[i].type.s \notin
                  {"brilliant", "good", "neutral", "inaccuracy", "mistake", "blunder"}

BadSummary(p) == p.bossSummary.k # "string" \/ ~HasLetter(p.bossSummary.c)

BadRating(p) ==
    \/ p.eloRating.k # "number"
    \/ ~p.eloRating.fin
    \/ p.eloRating.n < 100 * Scale
    \/ p.eloRating.n > 3000 * Scale

MustReject(p) ==
    \/ p.k # "object"
    \/ FewerThanFiveDimensions(p)
    \/ DuplicateDimensionKey(p)
    \/ ForeignDimensionName(p)
    \/ UnknownMomentType(p)
    \/ BadSummary(p)
    \/ BadRating(p)

\* C10: a payload with fewer than 5 dimensions, a duplicate or foreign
\* dimension key, an unknown moment type, a missing, non-string or blank
\* summary, a non-numeric or non-finite rating, or a rating below 100 or
\* above 3000 is rejected, and the route answers 500.
C10_Rejects == (response.status # 0 /\ MustReject(parsed)) => Rejected

\* A payload with an unknown moment type and a payload of rating 3001 were
\* rejected.
C10_Witness ==
    /\ Rejected
    /\ UnknownMomentType(parsed)
    /\ parsed.moments.items[1].k = "object"
    /\ parsed.moments.items[1].type = Sym("excellent")
    /\ ~BadRating(parsed) /\ ~BadSummary(parsed) /\ ~FewerThanFiveDimensions(parsed)

-----------------------------------------------------------------------------
(* Properties of the rate limiter *)

ScoreStore == rateLimitStore["score-interview"]

ScoreKey(ip) == Key("score-interview", ip)

\* C1: at every time the calls admitted on a key whose timestamp is inside
\* the window number at most maxRequests, and a call is admitted iff that
\* number was below maxRequests before the call.
C1_SlidingWindow ==
    /\ \A ip \in Identifiers : Len(LiveAdmitted(ScoreKey(ip), now)) <= MaxRequests
    /\ lastCall.made => (lastCall.success <=> lastCall.liveBefore < MaxRequests)

\* A call was denied at the end of the window of the first instant while
\* later admissions were still inside it.
C1_Witness ==
    /\ lastCall.made /\ ~lastCall.success
    /\ lastCall.at = WINDOW_MS
    /\ lastCall.liveBefore = MaxRequests

\* C3: in a burst of calls on a key that starts from an empty window and
\* stays inside it, the first maxRequests calls are admitted and call
\* maxRequests + 1 is denied; once the window of the oldest admitted
\* timestamp has elapsed, the next call on the key is admitted.
C3_BurstThenRecovery ==
    lastCall.made =>
        /\ lastCall.burstInWindow => (lastCall.success <=> lastCall.burstIndex <= MaxRequests)
        /\ (lastCall.burstInWindow /\ lastCall.burstIndex = MaxRequests + 1) =>
               (~lastCall.success /\ lastCall.remaining = 0)
        /\ lastCall.oldestExpired => lastCall.success

\* The call after a denied burst, made when the oldest timestamp had
\* expired, was admitted.
C3_Witness ==
    /\ lastCall.made /\ lastCall.success
    /\ lastCall.oldestExpired
    /\ lastCall.liveBefore = MaxRequests - 1
    /\ lastCall.burstIndex = MaxRequests + 2

\* The last call of a burst of maxRequests + 1 calls was denied.
C3_BurstDenied ==
    /\ lastCall.made /\ ~lastCall.success
    /\ lastCall.burstInWindow /\ lastCall.burstIndex = MaxRequests + 1

IsCallStep == rateLimitCallCount' # rateLimitCallCount

\* The result of a call on the key of ip at time t, from a store and counter.
OutcomeOf(store, callCount, ip, t) ==
    LET r == RateLimit(store, callCount, ip, MaxRequests, WINDOW_MS, "score-interview", t)
    IN  <<r.success, r.remaining>>

\* C4: a call on one key changes neither the outcome nor the remaining
\* value of a later call on another key, and a call that is not a sweep
\* call modifies no store entry but that of its own key.
C4_KeysIndependent ==
    [][ IsCallStep =>
          \A ip \in Identifiers :
              ip # lastCall'.ip =>
                  /\ \A t \in Instants :
                         t >= now =>
                             OutcomeOf(ScoreStore', rateLimitCallCount'["score-interview"], ip, t)
                                 = OutcomeOf(ScoreStore, rateLimitCallCount["score-interview"] + 1, ip, t)
                  /\ ~lastCall'.swept =>
                         /\ ScoreKey(ip) \in DOMAIN ScoreStore' <=> ScoreKey(ip) \in DOMAIN ScoreStore
                         /\ MapGet(ScoreStore', ScoreKey(ip)) = MapGet(ScoreStore, ScoreKey(ip)) ]_vars

\* A call was admitted on one key while the other key had used its budget.
C4_Witness ==
    /\ lastCall.made /\ lastCall.success /\ ~lastCall.swept
    /\ lastCall.remaining = MaxRequests - 1
    /\ \E ip \in Identifiers :
           /\ ip # lastCall.ip
           /\ ScoreKey(ip) \in DOMAIN ScoreStore
           /\ Len(Unexpired(ScoreStore[ScoreKey(ip)], now, WINDOW_MS)) = MaxRequests

\* The requests of a caller that passed the rate limiter with a timestamp
\* inside the window.
AdmittedHandlers(ip) ==
    { h \in Handlers :
          /\ handlers[h].pc # "idle"
          /\ handlers[h].status # 429
          /\ handlers[h].ip = ip
          /\ now - handlers[h].at < WINDOW_MS }

\* C2: under every interleaving of the requests at their await points each
\* admitted request has exactly one timestamp in the list of its key and a
\* denied one has none, so no admission is lost or counted twice, and at
\* most maxRequests requests are admitted inside one window.
C2_AtomicAdmission ==
    \A ip \in Identifiers :
        LET live == Unexpired(MapGet(ScoreStore, ScoreKey(ip)), now, WINDOW_MS)
        IN  /\ live = LiveAdmitted(ScoreKey(ip), now)
            /\ Len(live) = Cardinality(AdmittedHandlers(ip))
            /\ \A h \in AdmittedHandlers(ip) :
                   Len(SelectSeq(live, LAMBDA t : t = handlers[h].at)) =
                       Cardinality({ g \in AdmittedHandlers(ip) : handlers[g].at = handlers[h].at })
            /\ Cardinality(AdmittedHandlers(ip)) <= MaxRequests

\* Three requests of one caller are in flight at one instant: one awaits
\* the collaborator, one awaits its body, and the third was denied.
C2_Witness ==
    \E ip \in Identifiers :
        /\ \A h \in Handlers : handlers[h].ip = ip /\ handlers[h].at = now
        /\ \E h \in Handlers : handlers[h].pc = "claude"
        /\ \E h \in Handlers : handlers[h].pc = "body"
        /\ \E h \in Handlers : handlers[h].pc = "done" /\ handlers[h].status = 429


-----------------------------------------------------------------------------
(* Claims on the surfacing of a denial *)

ConversationsStore == rateLimitStore["conversations"]

\* A step in which GET /api/conversations/[id] handled a request.
IsGetStep == rateLimitCallCount'["conversations"] # rateLimitCallCount["conversations"]

\* The pipeline has caught the rate-limit error: the error is shown, the
\* phase is cleared, and neither transcript nor results were stored.
FailedRateLimited ==
    /\ run.pc = "failed"
    /\ wizard.step = "analysis"
    /\ wizard.error = RateLimitMessage
    /\ wizard.analysisPhase = 0
    /\ wizard.transcript.isNull
    /\ wizard.results.isNull

C5_DeniedCall ==
    (lastCall.made /\ ~lastCall.success) =>
        /\ lastCall.remaining = 0
        /\ Len(MapGet(ConversationsStore, Key("conversations", lastCall.ip))) = lastCall.liveBefore
        /\ lastGet.status = 429
        /\ lastGet.error = RateLimitMessage
        /\ ~lastGet.upstreamCalled

C5_AfterDenial ==
    run.lastStatus = 429 =>
        /\ run.pc \in {"threw", "failed"}
        /\ run.error = RateLimitMessage
        /\ run.pc = "failed" => FailedRateLimited

C5_DenialStep ==
    /\ (IsGetStep /\ ~lastCall'.success) =>
           /\ upstreamCalls' = upstreamCalls
           /\ run'.pc = "threw"
           /\ run'.lastStatus = 429
           /\ run'.sleeps = run.sleeps
    /\ run.lastStatus = 429 =>
           /\ run'.polls = run.polls
           /\ upstreamCalls' = upstreamCalls
           /\ rateLimitCallCount' = rateLimitCallCount
           /\ rateLimitStore' = rateLimitStore
           /\ run'.pc = "failed"

\* C5: a denied rateLimit call records no timestamp and returns remaining
\* 0; the route answers 429 with the rate-limit message without a request to
\* the ElevenLabs API; fetchTranscript, on the 429, throws at once with that
\* message, without a sleep and without a further poll; and the pipeline
\* ends failed: the message is shown, the phase is cleared, and nothing is
\* scored.
C5_DenialSurfaced == [](C5_DeniedCall /\ C5_AfterDenial) /\ [][C5_DenialStep]_vars

\* A run whose third or later poll was denied, after polls that were
\* admitted and answered 202, and that ended failed with the message.
C5_Witness ==
    /\ FailedRateLimited
    /\ run.lastStatus = 429
    /\ run.polls > MaxRequests
    /\ run.attempt > 0
    /\ lastCall.made /\ ~lastCall.success
    /\ upstreamCalls > 0

-----------------------------------------------------------------------------
(* Claims on the validator applied to its own results *)

\* A ScoringResults as the parsed object given to validateScoringResponse.
AsPayload(results) ==
    [k |-> "object",
     eloRating |-> Num(results.eloRating * Scale),
     tier |-> Sym(results.tier),
     verdict |-> Sym(results.verdict),
     bossSummary |-> Text(results.bossSummary),
     dimensions |-> Array([i \in 1..Len(results.dimensions) |->
                        [k |-> "object",
                         name |-> Sym(results.dimensions[i].name),
                         score |-> results.dimensions[i].score,
                         feedback |-> Text(results.dimensions[i].feedback)]]),
     moments |-> Array([i \in 1..Len(results.moments) |->
                        [k |-> "object",
                         type |-> Sym(results.moments[i].type),
                         question |-> Text(results.moments[i].question),
                         quote |-> Text(results.moments[i].quote),
                         explanation |-> Text(results.moments[i].explanation)]]),
     isPartial |-> Bool(results.isPartial),
     note |-> results.note]

\* C11: validateScoringResponse applied to a result R it returned succeeds
\* and returns R field by field: rating, tier, verdict, summary, dimensions
\* and moments in the same order, isPartial and note; and it logs no
\* self-healing warning.
C11_Idempotent ==
    Accepted =>
        LET again == ValidateScoringResponse(AsPayload(response.results))
        IN  /\ again.ok
            /\ again.warned = {}
            /\ again.results.eloRating = response.results.eloRating
            /\ again.results.tier = response.results.tier
            /\ again.results.verdict = response.results.verdict
            /\ again.results.bossSummary = response.results.bossSummary
            /\ again.results.dimensions = response.results.dimensions
            /\ again.results.moments = response.results.moments
            /\ again.results.isPartial = response.results.isPartial
            /\ again.results.note = response.results.note

\* A result made from a fractional rating and the dimensions in reverse
\* order.
C11_Witness ==
    /\ Accepted
    /\ parsed.eloRating.n % Scale # 0
    /\ parsed.dimensions = Array(Reverse(CanonicalDimensions))
    /\ response.results.dimensions[1].name = "questionsAsked"
    /\ AsPayload(response.results) # parsed

-----------------------------------------------------------------------------
(* Claims on the dimension scores *)

\* C12: every dimension score of a ScoringResults returned by the scoring
\* route lies in the range 1 to 10.
C12_ScoresInRange ==
    Accepted =>
        \A i \in 1..Len(response.results.dimensions) :
            /\ IsFiniteNumber(response.results.dimensions[i].score)
            /\ response.results.dimensions[i].score.n >= 1 * Scale
            /\ response.results.dimensions[i].score.n <= 10 * Scale

-----------------------------------------------------------------------------
(* Claims on the transcript retriever *)

\* A step in which fetchTranscript received the answer of a poll.
IsPollStep == run'.polls # run.polls

\* fetchTranscript has returned.
HasReturned == run.pc \in {"returned", "scoring", "dwell", "done"} \/ (run.pc = "failed" /\ run.lastStatus = 200 /\ ~wizard.transcript.isNull)

AllNotReady(statuses, k) == \A i \in 1..k : statuses[i] = 202

C13_Returned ==
    HasReturned =>
        LET k == Len(run.statuses) - 1
        IN  /\ k >= 0 /\ k <= MAX_ATTEMPTS - 1
            /\ AllNotReady(run.statuses, k)
            /\ run.statuses[k + 1] = 200
            /\ run.polls = k + 1
            /\ run.attempt = k
            /\ Len(run.sleeps) = k
            /\ run.transcript = lastGet.transcript
            /\ lastGet.status = 200 /\ lastGet.ready

C13_ReadyStep ==
    /\ (IsPollStep /\ IsGetStep /\ lastGet'.status = 200) =>
           /\ AllNotReady(run.statuses, Len(run.statuses))
           /\ run'.pc = "returned"
           /\ run'.transcript = lastGet'.transcript
           /\ run'.polls = Len(run.statuses) + 1
           /\ run'.sleeps = run.sleeps
    /\ HasReturned =>
           /\ run'.polls = run.polls
           /\ run'.sleeps = run.sleeps
           /\ run'.transcript = run.transcript
           /\ upstreamCalls' = upstreamCalls
           /\ rateLimitCallCount' = rateLimitCallCount
           /\ now' = now

\* C13: when the polls of a call were answered 202 k times (0 <= k <= 4)
\* and then 200, fetchTranscript returns the transcript of the 200 answer
\* after exactly k + 1 polls and k sleeps, and after the 200 answer it polls
\* no more and sleeps no more.
C13_ReadyAfterNotReady == []C13_Returned /\ [][C13_ReadyStep]_vars

\* The fifth poll was answered 200 with two entries after four 202 answers.
C13_Witness ==
    /\ run.pc = "returned"
    /\ run.statuses = <<202, 202, 202, 202, 200>>
    /\ Len(run.transcript) = 2
    /\ Len(run.sleeps) = 4

-----------------------------------------------------------------------------
(* Claims on the backoff schedule *)

\* d = 3000 * 1.5^e, without rounding
IsBasePower(d, e) == d * Pow(2, e) = 3000 * Pow(3, e)

\* The sleeps of a call come one before each attempt after attempt 0.
SleepsPrecedeAttempts ==
    /\ run.pc = "fetch" => Len(run.sleeps) = run.attempt
    /\ run.pc = "sleep" => Len(run.sleeps) = run.attempt + 1
    /\ Len(run.sleeps) <= MAX_ATTEMPTS - 1

\* C14 as stated: the delay slept before poll attempt k (0-indexed) is
\* 3000 * 1.5^k ms for every k >= 1 that is reached, and there is no delay
\* before attempt 0.
C14_DelayBeforeAttemptK ==
    /\ SleepsPrecedeAttempts
    /\ \A k \in 1..Len(run.sleeps) : IsBasePower(run.sleeps[k], k)

C14_AmendedStep ==
    (run.pc = "sleep" /\ run'.pc = "fetch") =>
        /\ run'.attempt = run.attempt + 1
        /\ IsBasePower(now' - now, run'.attempt - 1)

\* C14 amended: the delay slept before poll attempt k (0-indexed) is
\* 3000 * 1.5^(k-1) ms for every k >= 1 that is reached (3000, 4500, 6750
\* and 10125 ms before attempts 1 to 4), and there is no delay before
\* attempt 0.
C14_DelayBeforeAttemptKAmended ==
    /\ [](SleepsPrecedeAttempts /\ \A k \in 1..Len(run.sleeps) : IsBasePower(run.sleeps[k], k - 1))
    /\ [][C14_AmendedStep]_vars

\* The fifth attempt is due after the four sleeps of the schedule.
C14_Witness ==
    /\ run.pc = "fetch"
    /\ run.attempt = MAX_ATTEMPTS - 1
    /\ run.sleeps = <<3000, 4500, 6750, 10125>>

-----------------------------------------------------------------------------
(* Claims on the outcomes of the transcript retriever *)

NotReadyMessage == "Transcript is not yet available. Please wait a moment and try again."

NetworkMessage == "Network error - please check your connection and try again."

\* The ways fetchTranscript throws, from the status of its last poll:
\* every poll answered 202, the fetch rejected, a 200 that is not JSON, or
\* an error response.
OutcomeClass(frame) ==
    CASE frame.lastStatus = 202 -> "not-ready"
      [] frame.lastStatus = 0 -> "network"
      [] frame.lastStatus = 200 -> "unexpected"
      [] OTHER -> "hard"

ClassOfMessage(message) ==
    CASE message = NotReadyMessage -> "not-ready"
      [] message = NetworkMessage -> "network"
      [] message = "Failed to fetch transcript - unexpected server response." -> "unexpected"
      [] OTHER -> "hard"

\* C15: when every poll is answered 202, fetchTranscript fails after
\* exactly MAX_ATTEMPTS = 5 polls with the 'Transcript is not yet available'
\* error, and no hard error (a response other than 200 or 202) and no
\* network error carries the error value of another of the three outcomes.
C15_NotReadyDistinct ==
    /\ (AllNotReady(run.statuses, Len(run.statuses)) /\ run.statuses # <<>>) =>
           /\ Len(run.statuses) <= 5
           /\ Len(run.statuses) < 5 => run.pc \in {"sleep", "fetch"}
           /\ Len(run.statuses) = 5 =>
                  /\ run.pc \in {"threw", "failed"}
                  /\ run.error = NotReadyMessage
                  /\ run.polls = 5
                  /\ Len(run.sleeps) = 4
    /\ run.pc = "threw" =>
           /\ ClassOfMessage(run.error) = OutcomeClass(run)
           /\ OutcomeClass(run) = "not-ready" =>
                  (Len(run.statuses) = 5 /\ AllNotReady(run.statuses, 5))

\* Five polls answered 202 and the call threw the not-ready error.
C15_Witness ==
    /\ run.pc = "threw"
    /\ run.statuses = <<202, 202, 202, 202, 202>>
    /\ run.error = NotReadyMessage
    /\ upstreamCalls > 0

\* A status that is neither 200 nor 202; 0 stands for a rejected fetch.
IsFailureStatus(status) == status \notin {200, 202}

\* fetchTranscript has thrown on a hard error or a network failure.
HasFailedHard ==
    /\ run.statuses # <<>>
    /\ IsFailureStatus(run.statuses[Len(run.statuses)])

C16_NothingAfterFailure ==
    /\ \A i \in 1..Len(run.statuses) : IsFailureStatus(run.statuses[i]) => i = Len(run.statuses)
    /\ HasFailedHard =>
           /\ run.pc \in {"threw", "failed"}
           /\ Len(run.sleeps) = Len(run.statuses) - 1
           /\ run.error # NotReadyMessage

C16_FailureStep ==
    /\ (IsPollStep /\ IsGetStep /\ IsFailureStatus(lastGet'.status)) =>
           /\ run'.pc = "threw"
           /\ run'.error = lastGet'.error
    /\ (IsPollStep /\ IsFailureStatus(run'.statuses[Len(run'.statuses)])) =>
           /\ run'.pc = "threw"
           /\ run'.sleeps = run.sleeps
           /\ run'.attempt = run.attempt
    /\ HasFailedHard =>
           /\ run'.polls = run.polls
           /\ run'.sleeps = run.sleeps
           /\ rateLimitCallCount' = rateLimitCallCount
           /\ upstreamCalls' = upstreamCalls
           /\ now' = now
           /\ run'.pc = "failed"

\* C16: the first poll that is answered with a status other than 200 or
\* 202, or whose fetch rejects, makes fetchTranscript throw at once, on
\* whatever attempt it happens: no sleep follows it and no later poll.
C16_NoRetryAfterFailure == []C16_NothingAfterFailure /\ [][C16_FailureStep]_vars

\* The last attempt was answered 404 after four answers of 202.
C16_Witness ==
    /\ run.pc = "threw"
    /\ run.statuses = <<202, 202, 202, 202, 404>>
    /\ run.error = "Conversation not found"
    /\ Len(run.sleeps) = 4

\* The second attempt's fetch rejected.
C16_NetworkFailure ==
    /\ run.pc = "threw"
    /\ run.statuses = <<202, 0>>
    /\ run.error = NetworkMessage

-----------------------------------------------------------------------------
(* Claims on the conversation id *)

\* The id is 10 to 50 characters of the letters, digits, hyphen and
\* underscore.
IsConversationId(id) == id.wellFormed /\ id.len \in 10..50

C17_LongestIdFetched ==
    /\ run.id = [len |-> 50, wellFormed |-> TRUE]
    /\ lastGet.upstreamCalled
    /\ lastGet.status = 200

-----------------------------------------------------------------------------
(* Claims on the scoring route *)

\* The body of the followed request has been read and checked.
BodyChecked ==
    \/ post.pc = "claude"
    \/ post.pc = "done" /\ post.outcome \notin {"denied", "body throws"}

\* The transcript is missing, not a string, empty after trimming or longer
\* than 200,000 characters.
BadTranscript(v) ==
    \/ v.k # "string"
    \/ v.n = 0
    \/ v.b
    \/ v.n > 200000

\* The cvText is present and not a string or longer than 100,000
\* characters.
BadCvText(v) ==
    /\ v.k \notin {"undefined", "null"}
    /\ v.k # "string" \/ v.n > 100000

C18_LimitsAccepted ==
    /\ post.pc = "claude"
    /\ post.transcript = Str(200000, FALSE)
    /\ post.cvText = Str(100000, FALSE)
    /\ post.calls = 1

\* The followed request passed the rate limit, the input validation and
\* the API-key check.
PassedLocalChecks ==
    /\ lastCall.made /\ lastCall.success
    /\ post.outcome # "body throws"
    /\ ~BadTranscript(post.transcript)
    /\ ~BadCvText(post.cvText)
    /\ post.hasApiKey

C19_CallsOfRequest ==
    /\ post.calls <= 1
    /\ post.pc \in {"idle", "body"} => post.calls = 0
    /\ post.pc \in {"claude", "done"} => (post.calls = 1 <=> PassedLocalChecks)
    /\ (post.pc = "done" /\ post.outcome \in CollaboratorOutcomes) => post.calls = 1

C19_SameRequestStep ==
    post'.served = post.served =>
        /\ post'.calls >= post.calls
        /\ post.pc = "claude" =>
               /\ post'.pc = "done"
               /\ post'.calls = post.calls
               /\ response'.status \in {200, 500}
        /\ post.pc = "done" => post' = post

\* C19: within one POST client.messages.create is called at most once:
\* once when the rate limit, the input validation and the API-key check all
\* pass, not at all otherwise, and never a second time after the call threw
\* or returned a response that does not parse or validate: the request is
\* answered right then.
C19_AtMostOneCall == []C19_CallsOfRequest /\ [][C19_SameRequestStep]_vars

\* The one call threw and the request was answered 500.
C19_Witness ==
    /\ post.pc = "done"
    /\ post.outcome = "throws"
    /\ post.calls = 1
    /\ response.status = 500
    /\ response.error = CatchAllMessage

\* The collaborator answered the followed request and the answer did not
\* yield results: its text was empty, held no JSON object, held one that
\* does not parse, or parsed to a value the validator rejects.
ResponseFailed ==
    /\ post.pc = "done"
    /\ post.outcome \in {"empty", "no json", "bad json", "json"}
    /\ response.status # 200

\* C20: every parse failure and every validation failure of the
\* collaborator's response gives the same answer, status 500 with the body
\* {error: 'Failed to score the interview'}: any two such answers are
\* identical, so neither the validation reason nor upstream content reaches
\* the caller.
C20_OpaqueFailure ==
    /\ ResponseFailed =>
           response = [status |-> 500, error |-> "Failed to score the interview", results |-> NoResults]
    /\ (post.pc = "done" /\ post.outcome \in {"empty", "no json", "bad json"}) => ResponseFailed
    /\ (post.pc = "done" /\ post.outcome = "json" /\ MustReject(parsed)) => ResponseFailed

\* A response whose summary is blank was answered with the opaque 500.
C20_Witness ==
    /\ ResponseFailed
    /\ post.outcome = "json"
    /\ parsed.bossSummary = Text(<<" ">>)
    /\ response.status = 500

\* A response without a JSON object was answered with the opaque 500.
C20_NoJsonObject ==
    /\ ResponseFailed
    /\ post.outcome = "no json"
    /\ response.error = "Failed to score the interview"

-----------------------------------------------------------------------------
(* runAnalysisPipeline: the order of the phases *)

\* A step of the pipeline that changes analysisPhase to a phase (not to
\* null).
IsPhaseStep == wizard'.analysisPhase # wizard.analysisPhase /\ wizard'.analysisPhase # 0

\* The scoring request leaves in this step.
IsScoringRequestStep == run.pc # "scoring" /\ run'.pc = "scoring"

\* Each phase entered is the one after the phase left, the scoring request
\* leaves in the step that receives fetchTranscript's return value and
\* stores it, and step "results" is entered from phase 3.
C21_PhaseStep ==
    /\ IsPhaseStep => wizard'.analysisPhase = wizard.analysisPhase + 1 /\ wizard'.analysisPhase \in 1..3
    /\ IsScoringRequestStep =>
           /\ run.pc = "returned"
           /\ wizard'.transcript = [isNull |-> FALSE, entries |-> run.transcript]
           /\ wizard'.analysisPhase = 2
    /\ wizard'.step = "results" /\ wizard.step # "results" =>
           wizard.analysisPhase = 3 /\ wizard'.analysisPhase = 3 /\ run.pc = "dwell"

\* Phase 2 and later hold a stored transcript, phase 3 holds stored
\* results, and step "results" is in phase 3.
C21_PhaseState ==
    /\ wizard.analysisPhase \in 0..3
    /\ wizard.analysisPhase >= 2 => ~wizard.transcript.isNull
    /\ wizard.analysisPhase = 3 => ~wizard.results.isNull /\ run.pc \in {"dwell", "done"}
    /\ wizard.step = "results" => wizard.analysisPhase = 3 /\ run.pc = "done"

\* C21: in a run of runAnalysisPipeline analysisPhase takes the values 1, 2,
\* 3 in that order, never repeating and never decreasing; the scoring
\* request is sent only after fetchTranscript has returned; phase 3 is
\* entered only after the results are stored; and step "results" is set only
\* after phase 3.
C21_PhasesInOrder == []C21_PhaseState /\ [][C21_PhaseStep]_vars

\* A run has gone through the three phases and shows the results.
C21_Witness ==
    /\ run.pc = "done"
    /\ wizard.step = "results"
    /\ wizard.analysisPhase = 3
    /\ Len(run.statuses) >= 2

-----------------------------------------------------------------------------
(* runAnalysisPipeline: the failure transitions *)

\* The error messages of the answers of the scoring route that are not OK.
ScoringErrors == { answer.error : answer \in { a \in ScoreAnswers : a.status # 200 } }

\* The catch block after fetchTranscript threw, the catch block after the
\* scoring request answered non-OK, and the steps after a failure.
C22_FailureStep ==
    /\ run.pc = "threw" =>
           /\ run'.pc = "failed"
           /\ wizard'.error = run.error
           /\ wizard'.analysisPhase = 0
           /\ wizard'.transcript.isNull /\ wizard'.results.isNull
    /\ run.pc = "scoring" /\ run'.pc = "failed" =>
           /\ wizard'.error = run'.error
           /\ wizard'.error \in ScoringErrors
           /\ wizard'.analysisPhase = 0
           /\ wizard'.results.isNull
    /\ run.pc \in {"threw", "failed"} => run'.pc = "failed"

\* After a failure the error is shown, the phase is cleared, no results
\* are held and the step is still "analysis".
C22_FailedState ==
    run.pc = "failed" =>
        /\ wizard.error = run.error /\ wizard.error # NullString
        /\ wizard.analysisPhase = 0
        /\ wizard.results.isNull
        /\ wizard.step = "analysis"

\* C22: when fetchTranscript throws, the scoring endpoint is never called
\* and the wizard's error is the retrieval error's message; when the scoring
\* request answers non-OK, the wizard's error is the scoring error's message
\* and results stay unset; in both cases analysisPhase is cleared and the
\* step never becomes "results" in that run.
C22_FailureTransitions == []C22_FailedState /\ [][C22_FailureStep]_vars

\* A run failed in scoring after its transcript was retrieved.
C22_Witness ==
    /\ run.pc = "failed"
    /\ HasReturned
    /\ wizard.error = "Failed to score the interview"
    /\ wizard.analysisPhase = 0

\* A run failed in retrieval: every poll was answered 202.
C22_RetrievalFailure ==
    /\ run.pc = "failed"
    /\ ~HasReturned
    /\ wizard.error = NotReadyMessage
    /\ run.polls = MAX_ATTEMPTS

-----------------------------------------------------------------------------
(* runAnalysisPipeline: the state left by a failed run *)

\* C23: after a run ends failed, in retrieval or in scoring, the wizard
\* state holds no transcript and no results of that run (transcript = null
\* and results = null), only the error message.
C23_PartialStateDiscarded ==
    run.pc = "failed" =>
        /\ wizard.transcript.isNull
        /\ wizard.results.isNull
        /\ wizard.error # NullString

-----------------------------------------------------------------------------
(* app/page: the handlers of the page and its pipeline runs *)

\* The attempts a page makes after its first.
MaxResets == 1

\* What the handlers of the page leave alone.
serverVars == <<limiterVars, parsed, response, run, lastGet, upstreamCalls, responseText, getRequest>>

\* actions.setStep
SetStep(state, step) == [state EXCEPT !.step = step, !.error = NullString]

\* The InterviewStep as it mounts: the incoming-call screen.
Mounted == [NoSession EXCEPT !.attempt = session.attempt]

\* The conversation of an attempt, and the transcript the route returns
\* for it: one entry whose message names the conversation.
ConversationOf(attempt) == "c" \o ToString(attempt)

TranscriptOf(conversationId) == <<[role |-> "agent", message |-> conversationId]>>

\* The messages fetchTranscript throws with.
FetchErrors == {NotReadyMessage, NetworkMessage, "Conversation not found"}

\* The messages the steps report through onError.
StepErrors == {"Microphone access is required for the interview."}

\* handleBegin, from the landing step.
HandleBegin ==
    /\ wizard.step = "landing"
    /\ wizard' = SetStep(wizard, "upload-cv")
    /\ UNCHANGED <<serverVars, pipelines, session>>

\* handleFileUploaded, from the upload step.
HandleFileUploaded ==
    /\ wizard.step = "upload-cv"
    /\ wizard' = SetStep([wizard EXCEPT !.cvText = "cv", !.cvFileName = "cv.pdf"], "interview")
    /\ session' = Mounted
    /\ UNCHANGED <<serverVars, pipelines>>

\* handleSkipUpload, from the upload step.
HandleSkipUpload ==
    /\ wizard.step = "upload-cv"
    /\ wizard' = SetStep(wizard, "interview")
    /\ session' = Mounted
    /\ UNCHANGED <<serverVars, pipelines>>

\* handleDecline, from the incoming-call screen of the interview step.
HandleDecline ==
    /\ wizard.step = "interview"
    /\ session.ringing
    /\ wizard' = SetStep(wizard, "upload-cv")
    /\ UNCHANGED <<serverVars, pipelines, session>>

\* handleError, from the upload step and the interview step.
HandleError ==
    /\ wizard.step \in {"upload-cv", "interview"}
    /\ \E message \in StepErrors : wizard' = [wizard EXCEPT !.error = message]
    /\ UNCHANGED <<serverVars, pipelines, session>>

\* The Dismiss button of the error banner.
DismissError ==
    /\ wizard.error # NullString
    /\ wizard' = [wizard EXCEPT !.error = NullString]
    /\ UNCHANGED <<serverVars, pipelines, session>>

\* InterviewStep: handleAnswer, and startConversation as far as the
\* session that startSession opens for the attempt.
HandleAnswer ==
    /\ wizard.step = "interview"
    /\ session.ringing
    /\ session' = [session EXCEPT !.ringing = FALSE, !.conversationId = ConversationOf(session.attempt)]
    /\ UNCHANGED <<serverVars, pipelines, wizard>>

\* A run that is not in flight.
IsFree(frame) == frame.pc \in {"idle", "done", "failed"}

\* InterviewStep: onDisconnect sets the timer that calls onConversationEnd
\* with the conversation of the session.  The callback belongs to the
\* conversation library; the component keeps no record of having been
\* called.
OnDisconnect(r) ==
    /\ wizard.step = "interview"
    /\ session.conversationId # NullString
    /\ IsFree(pipelines[r])
    /\ \A q \in Runs : q < r => ~IsFree(pipelines[q])
    /\ pipelines' = [pipelines EXCEPT ![r] =
           [NoPipeline EXCEPT !.pc = "scheduled", !.attempt = session.attempt,
                              !.conversationId = session.conversationId]]
    /\ UNCHANGED <<serverVars, wizard, session>>

\* handleConversationEnd: the conversation id is stored and
\* runAnalysisPipeline runs up to its await of fetchTranscript.
HandleConversationEnd(r) ==
    /\ pipelines[r].pc = "scheduled"
    /\ wizard' = [SetStep(wizard, "analysis") EXCEPT !.conversationId = pipelines[r].conversationId,
                                                     !.analysisPhase = 1]
    /\ pipelines' = [pipelines EXCEPT ![r].pc = "retrieving", ![r].phases = <<1>>]
    /\ UNCHANGED <<serverVars, session>>

\* fetchTranscript settles: the transcript is stored, phase 2 is set and
\* the scoring request is sent, or the catch block sets the error and
\* clears the phase.
RetrievalSettles(r) ==
    /\ pipelines[r].pc = "retrieving"
    /\ \/ LET transcript == TranscriptOf(pipelines[r].conversationId)
          IN  /\ wizard' = [wizard EXCEPT !.transcript = [isNull |-> FALSE, entries |-> transcript],
                                          !.analysisPhase = 2]
              /\ pipelines' = [pipelines EXCEPT ![r].pc = "scoring", ![r].transcript = transcript,
                                                ![r].phases = Append(@, 2)]
       \/ \E message \in FetchErrors :
              /\ wizard' = [wizard EXCEPT !.error = message, !.analysisPhase = 0]
              /\ pipelines' = [pipelines EXCEPT ![r].pc = "failed", ![r].error = message]
    /\ UNCHANGED <<serverVars, session>>

\* The scoring request settles: the results are stored, phase 3 is set and
\* the dwell begins, or the catch block sets the error and clears the phase.
ScoreSettles(r) ==
    /\ pipelines[r].pc = "scoring"
    /\ \E answer \in { settled.answer : settled \in ScoringOutcomes(pipelines[r].transcript) } :
           IF answer.status = 200
           THEN /\ wizard' = [wizard EXCEPT !.results = [isNull |-> FALSE, value |-> answer.results],
                                            !.analysisPhase = 3]
                /\ pipelines' = [pipelines EXCEPT ![r].pc = "dwell", ![r].results = answer.results,
                                                  ![r].phases = Append(@, 3)]
           ELSE /\ wizard' = [wizard EXCEPT !.error = answer.error, !.analysisPhase = 0]
                /\ pipelines' = [pipelines EXCEPT ![r].pc = "failed", ![r].error = answer.error]
    /\ UNCHANGED <<serverVars, session>>

\* The dwell of 800 ms ends: setStep("results").
DwellEnd(r) ==
    /\ pipelines[r].pc = "dwell"
    /\ wizard' = SetStep(wizard, "results")
    /\ pipelines' = [pipelines EXCEPT ![r].pc = "done"]
    /\ UNCHANGED <<serverVars, session>>

\* The ResultsStep is rendered, with its two buttons.
ResultsShown == wizard.step = "results" /\ ~wizard.results.isNull /\ ~wizard.transcript.isNull

\* resetForRetry keeping the results of the attempt before.
ResetForRetryKeepingResults(current) ==
    [current EXCEPT !.step = "interview", !.conversationId = NullString, !.analysisPhase = 0,
                    !.error = NullString, !.loading = FALSE]

\* actions.resetForRetry
ResetForRetry(current) ==
    [INITIAL_STATE EXCEPT !.step = "interview", !.cvText = current.cvText, !.cvFileName = current.cvFileName]

\* handleTryAgain, from the results step: a new attempt begins at the
\* interview step.
HandleTryAgain ==
    /\ ResultsShown
    /\ session.attempt <= MaxResets
    /\ wizard' = ResetForRetry(wizard)
    /\ session' = [NoSession EXCEPT !.attempt = session.attempt + 1]
    /\ UNCHANGED <<serverVars, pipelines>>

\* handleStartOver, from the results step: actions.resetFull.
HandleStartOver ==
    /\ ResultsShown
    /\ session.attempt <= MaxResets
    /\ wizard' = INITIAL_STATE
    /\ session' = [NoSession EXCEPT !.attempt = session.attempt + 1]
    /\ UNCHANGED <<serverVars, pipelines>>

NextWizard ==
    \/ HandleBegin
    \/ HandleFileUploaded
    \/ HandleSkipUpload
    \/ HandleDecline
    \/ HandleError
    \/ DismissError
    \/ HandleAnswer
    \/ \E r \in Runs : OnDisconnect(r)
    \/ \E r \in Runs : HandleConversationEnd(r)
    \/ \E r \in Runs : RetrievalSettles(r)
    \/ \E r \in Runs : ScoreSettles(r)
    \/ \E r \in Runs : DwellEnd(r)
    \/ HandleTryAgain
    \/ HandleStartOver

SpecWizard == Init /\ [][NextWizard]_vars

-----------------------------------------------------------------------------
(* The results step and the runs of earlier attempts *)

\* A run of the current attempt has finished with this transcript and
\* these results.
FinishedWith(r, transcript, results) ==
    /\ pipelines[r].pc = "done"
    /\ pipelines[r].attempt = session.attempt
    /\ pipelines[r].transcript = transcript
    /\ pipelines[r].results = results

\* C24: in every reachable wizard state with step "results", results is
\* non-null and is the validated ScoringResults the scoring route returned
\* in this attempt, and transcript is non-null and is the transcript
\* fetchTranscript returned in this attempt, whatever the interleaving of
\* the pipeline's steps with the wizard's actions.
C24_DoneExposesResult ==
    wizard.step = "results" =>
        /\ ~wizard.results.isNull
        /\ ~wizard.transcript.isNull
        /\ \E r \in Runs : FinishedWith(r, wizard.transcript.entries, wizard.results.value)

\* A run was abandoned: it began in an attempt before the current one and
\* is still in flight.
IsAbandoned(r) ==
    /\ pipelines[r].pc \in {"retrieving", "scoring", "dwell"}
    /\ pipelines[r].attempt < session.attempt

\* C25: when an attempt is abandoned while a run is in flight (by
\* resetForRetry, by resetFull or by a new attempt), the later completion of
\* that run's retrieval, scoring or dwell does not change the wizard state.
C25_AbandonedRunDiscarded ==
    [][\A r \in Runs : IsAbandoned(r) /\ pipelines'[r].pc # pipelines[r].pc => wizard' = wizard]_vars

-----------------------------------------------------------------------------
(* A new attempt *)

\* The fields of the pipeline are those of the initial state.
IsFreshPipelineState(state) ==
    /\ state.conversationId = NullString
    /\ state.transcript.isNull
    /\ state.results.isNull
    /\ state.analysisPhase = 0
    /\ state.error = NullString
    /\ state.loading = FALSE

\* A step that begins a new attempt, and a step in which a run begins.
IsResetStep == session'.attempt = session.attempt + 1

IsRunStart(r) == pipelines[r].pc = "scheduled" /\ pipelines'[r].pc = "retrieving"

\* The state a reset leaves, the state a run begins in, and what can
\* follow a failed run.
C26_ResetStep ==
    /\ IsResetStep =>
           /\ ResultsShown
           /\ IsFreshPipelineState(wizard')
           /\ \/ /\ wizard'.step = "interview"
                 /\ wizard'.cvText = wizard.cvText
                 /\ wizard'.cvFileName = wizard.cvFileName
              \/ /\ wizard'.step = "landing"
                 /\ wizard'.cvText = NullString
                 /\ wizard'.cvFileName = NullString
    /\ \A r \in Runs :
           /\ IsRunStart(r) =>
                  /\ wizard'.analysisPhase = 1
                  /\ wizard'.step = "analysis"
                  /\ pipelines'[r].phases = <<1>>
                  /\ pipelines'[r].transcript = <<>> /\ pipelines'[r].results = NoResults
           /\ pipelines[r].pc = "failed" => pipelines'[r].pc \in {"failed", "scheduled"}

\* C26: after resetForRetry the state is the initial state except step =
\* "interview" and cvText and cvFileName, which keep the values they had
\* before the call; after resetFull the state is the initial state; the
\* next run of the pipeline begins at phase 1, and no failed run is resumed.
C26_FreshAttempt == [][C26_ResetStep]_vars

\* After a retry that kept an uploaded CV, the run of the second attempt
\* has begun.
C26_Witness ==
    /\ session.attempt = 2
    /\ wizard.cvText = "cv" /\ wizard.cvFileName = "cv.pdf"
    /\ wizard.step = "analysis"
    /\ wizard.analysisPhase = 1
    /\ wizard.results.isNull
    /\ \E r \in Runs : pipelines[r].attempt = 2 /\ pipelines[r].pc = "retrieving"

\* After a full reset the page is at the landing step again.
C26_StartedOver ==
    /\ session.attempt = 2
    /\ wizard = INITIAL_STATE

-----------------------------------------------------------------------------
(* POST /api/score-interview: steps 6 and 7 on the response text *)

\* The response text is a sequence of lexical tokens: "{" and "}"; " " for
\* a whitespace character (a space or a newline); "x" for a character of
\* prose; "fence" for the three backquotes of a code fence, with its language tag; "null"
\* for the JSON literal; and "p1" and "p2" for the members of a scoring
\* object, "p1" those of the canonical response and "p2" the same with tier
\* "Impressive".  A "{" inside an object opens the object value of a member
\* the validator does not read.

\* The tokens before and after the object of a response, per side.
MaxAround == 2

AroundTokens == {"{", "}", " ", "x", "fence"}

JsonTokens == {"{", "}", " ", "p1", "p2"}

\* The token sequences of at most n tokens.
RECURSIVE TokensUpTo(_)
TokensUpTo(n) ==
    IF n = 0 THEN {<<>>}
    ELSE LET shorter == TokensUpTo(n - 1)
         IN  shorter \cup { Append(t, tok) : t \in shorter, tok \in AroundTokens }

\* The middles of the responses: nothing, the literal null, scoring
\* objects (one of them with a nested object, one with inner whitespace),
\* the empty object, and an object that is not closed.
ObjectTexts ==
    { <<>>, <<"null">>, <<"{", "}">>, <<"{", "p1", "}">>, <<"{", "p2", "}">>,
      <<"{", "p1", "{", "}", "}">>, <<"{", " ", "p1", " ", "}">>, <<"{", "p1">> }

ResponseTexts ==
    { before \o obj \o after : before \in TokensUpTo(MaxAround), obj \in ObjectTexts,
                             after \in TokensUpTo(MaxAround) }

\* The number of objects open after the first i tokens.
RECURSIVE Depth(_, _)
Depth(text, i) ==
    IF i = 0 THEN 0
    ELSE Depth(text, i - 1) + (IF text[i] = "{" THEN 1 ELSE IF text[i] = "}" THEN -1 ELSE 0)

\* The text is one JSON object: it opens with "{", closes with the "}"
\* that matches it, and holds members, nested objects and whitespace only.
IsJsonObject(text) ==
    /\ Len(text) >= 2
    /\ text[1] = "{"
    /\ \A i \in 1..Len(text) : text[i] \in JsonTokens
    /\ \A i \in 1..(Len(text) - 1) : Depth(text, i) >= 1
    /\ Depth(text, Len(text)) = 0

\* JSON.parse accepts the text: whitespace around one value.
IsJson(text) == IsJsonObject(Trim(text)) \/ Trim(text) = <<"null">>

\* An object without the members of a scoring response.
EmptyObject ==
    [k |-> "object", eloRating |-> Undefined, tier |-> Undefined, verdict |-> Undefined,
     bossSummary |-> Undefined, dimensions |-> Undefined, moments |-> Undefined,
     isPartial |-> Undefined, note |-> Undefined]

MembersOf(tok) ==
    IF tok = "p1" THEN CanonicalPayload ELSE [CanonicalPayload EXCEPT !.tier = Sym("Impressive")]

\* The value of a JSON object: its own members, the later ones winning.
RECURSIVE ObjectValue(_, _, _)
ObjectValue(text, i, value) ==
    IF i > Len(text) THEN value
    ELSE IF text[i] \in {"p1", "p2"} /\ Depth(text, i) = 1
    THEN ObjectValue(text, i + 1, MembersOf(text[i]))
    ELSE ObjectValue(text, i + 1, value)

\* JSON.parse(text), for a text it accepts.
JsonParse(text) ==
    IF Trim(text) = <<"null">>
    THEN [EmptyObject EXCEPT !.k = "null"]
    ELSE ObjectValue(Trim(text), 1, EmptyObject)

\* The positions of a token in the text.
PositionsOf(text, tok) == { i \in 1..Len(text) : text[i] = tok }

Min(S) == CHOOSE i \in S : \A j \in S : i <= j

Max(S) == CHOOSE i \in S : \A j \in S : i >= j

NoMatch == [found |-> FALSE, text |-> <<>>]

\* responseText.match(/\{[\s\S]*\}/): from the first "{" to the last "}"
\* after it.
RegexMatch(text) ==
    LET opens == PositionsOf(text, "{") IN
    IF opens = {} \/ { j \in PositionsOf(text, "}") : j > Min(opens) } = {}
    THEN NoMatch
    ELSE [found |-> TRUE, text |-> SubSeq(text, Min(opens), Max(PositionsOf(text, "}")))]

NotParsed == [ok |-> FALSE, value |-> NoPayload]

ParseResponseTextRawOnly(text) ==
    IF IsJson(Trim(text)) THEN [ok |-> TRUE, value |-> JsonParse(Trim(text))] ELSE NotParsed

\* Step 7: the raw parse of the trimmed text, then the parse of the match.
ParseResponseText(text) ==
    IF IsJson(Trim(text))
    THEN [ok |-> TRUE, value |-> JsonParse(Trim(text))]
    ELSE LET jsonMatch == RegexMatch(text) IN
         IF jsonMatch.found /\ IsJson(jsonMatch.text)
         THEN [ok |-> TRUE, value |-> JsonParse(jsonMatch.text)]
         ELSE NotParsed

\* Steps 6 to 9 on the response text.
RespondToText(text) ==
    IF Trim(text) = <<>> \/ ~ParseResponseText(text).ok
    THEN [status |-> 500, error |-> "Failed to score the interview", results |-> NoResults]
    ELSE RespondToParsed(ParseResponseText(text).value)

InitParse ==
    /\ InitLimiter
    /\ parsed = NoPayload
    /\ response = NoResponse
    /\ wizard = INITIAL_STATE
    /\ run = NoRun
    /\ lastGet = NoGet
    /\ upstreamCalls = 0
    /\ pipelines = [r \in Runs |-> NoPipeline]
    /\ session = NoSession
    /\ getRequest = NoGetRequest
    /\ responseText \in ResponseTexts

\* POST answers the collaborator's response.
ParseAndRespond ==
    /\ response = NoResponse
    /\ parsed' = ParseResponseText(responseText).value
    /\ response' = RespondToText(responseText)
    /\ UNCHANGED <<limiterVars, pipelineVars, pipelines, session, responseText, getRequest>>

NextParse == ParseAndRespond

SpecParse == InitParse /\ [][NextParse]_vars

\* The first balanced object of the text: from the first "{" to the "}"
\* that closes it.
FirstBalancedObject(text) ==
    LET opens == PositionsOf(text, "{") IN
    IF opens = {} THEN NoMatch
    ELSE LET first == Min(opens)
             rest == SubSeq(text, first, Len(text))
             closes == { j \in 1..Len(rest) : Depth(rest, j) = 0 }
         IN  IF closes = {} THEN NoMatch
             ELSE [found |-> TRUE, text |-> SubSeq(rest, 1, Min(closes))]

\* The text is a preamble, a JSON object and trailing text, and is not
\* JSON as a whole.
HasEmbeddedObject(text) ==
    /\ ~IsJson(Trim(text))
    /\ FirstBalancedObject(text).found
    /\ IsJsonObject(FirstBalancedObject(text).text)

\* C27: when the response text is not valid JSON as a whole and holds a
\* valid JSON object after a preamble and before trailing text (which may
\* hold braces or a second object), the first balanced object of the text
\* is what the route hands to the validator.
C27_FirstBalancedObjectParsed ==
    response # NoResponse /\ HasEmbeddedObject(responseText) =>
        /\ parsed = JsonParse(FirstBalancedObject(responseText).text)
        /\ response = RespondToParsed(JsonParse(FirstBalancedObject(responseText).text))

\* The payload between an opening and a closing code fence.
Fenced(payload) == <<"fence", " ">> \o payload \o <<" ", "fence">>

\* C28: for every scoring JSON object P, the route answers the fenced text
\* as it answers the bare text P; fenced JSON with rating 1450 and tier
\* "Impressive" gives status 200 with tier "Noteworthy".
C28_FenceChangesNothing ==
    \A payload \in ObjectTexts :
        IsJsonObject(payload) /\ responseText = Fenced(payload) /\ response # NoResponse =>
            /\ response = RespondToText(payload)
            /\ parsed = JsonParse(payload)
            /\ payload = <<"{", "p2", "}">> =>
                   response.status = 200 /\ response.results.tier = "Noteworthy"

\* The fenced response of rating 1450 and tier "Impressive" was answered.
C28_Witness ==
    /\ responseText = Fenced(<<"{", "p2", "}">>)
    /\ parsed.tier = Sym("Impressive")
    /\ response.status = 200
    /\ response.results.tier = "Noteworthy"
    /\ response.results.eloRating = 1450

-----------------------------------------------------------------------------
(* GET /api/conversations/[id]: requests one after the other *)

\* The roles of the raw entries: those of RawRoles, one that differs from
\* "agent" by its case, and the role left out.
UpstreamRoles == RawRoles \cup {"AGENT", "<missing>"}

UpstreamTranscripts ==
    {<<>>}
        \cup { <<[role |-> r, message |-> 1]>> : r \in UpstreamRoles }
        \cup { <<[role |-> r1, message |-> 1], [role |-> r2, message |-> 2]>> :
                   r1 \in UpstreamRoles, r2 \in UpstreamRoles }

\* What the ElevenLabs API can answer to GET: the answers of
\* UpstreamAnswers, other statuses of success, of redirection and of
\* failure, an answer of success whose body is not JSON ("malformed"), and
\* conversations without a status or with one the route does not know.
UpstreamAnswersOfGet ==
    UpstreamAnswers
        \cup { [kind |-> "answers", http |-> h, status |-> "", transcript |-> <<>>] : h \in {199, 301, 503} }
        \cup { [kind |-> "malformed", http |-> h, status |-> "", transcript |-> <<>>] : h \in {200, 404} }
        \cup { [kind |-> "answers", http |-> h, status |-> st, transcript |-> <<>>] :
                   h \in {200, 201, 299}, st \in {"", "Done", "done"} }
        \cup { [kind |-> "answers", http |-> 200, status |-> "done", transcript |-> tr] :
                   tr \in UpstreamTranscripts }

NoUpstream == [kind |-> "none", http |-> 0, status |-> "", transcript |-> <<>>]

\* The requests of the model: one the route answers before its fetch, or
\* one it fetches the conversation for.
GetRequests ==
    { [id |-> id, hasApiKey |-> hasApiKey, upstream |-> NoUpstream] :
          id \in { c \in ConversationIds : ~MatchesIdPattern(c) }, hasApiKey \in BOOLEAN }
        \cup { [id |-> id, hasApiKey |-> FALSE, upstream |-> NoUpstream] :
                   id \in { c \in ConversationIds : MatchesIdPattern(c) } }
        \cup { [id |-> id, hasApiKey |-> TRUE, upstream |-> upstream] :
                   id \in { c \in ConversationIds : MatchesIdPattern(c) }, upstream \in UpstreamAnswersOfGet }

\* GET handles one request: the rate-limit check, then steps 2 to 5.  The
\* requests of a run arrive within one window of the limiter.
GetHandles(request) ==
    LET r == RateLimit(rateLimitStore["conversations"], rateLimitCallCount["conversations"],
                       ClientIp, MaxRequests, WINDOW_MS, "conversations", now)
        answer == GetRoute(r.success, request.id, request.hasApiKey, request.upstream)
    IN  /\ DoRateLimit("conversations", ClientIp)
        /\ lastGet' = answer
        /\ upstreamCalls' = upstreamCalls + (IF answer.upstreamCalled THEN 1 ELSE 0)
        /\ getRequest' = [id |-> request.id, hasApiKey |-> request.hasApiKey, admitted |-> r.success,
                          upstream |-> IF answer.upstreamCalled THEN request.upstream ELSE NoUpstream]

\* A request of GetRequests arrives and is handled.
GetArrives ==
    /\ rateLimitCallCount["conversations"] < SWEEP_EVERY - MaxCalls + MaxRequests + 1
    /\ \E request \in GetRequests : GetHandles(request)
    /\ UNCHANGED <<now, handlers, post, parsed, response, wizard, run, pipelines, session, responseText>>

NextGet == GetArrives

SpecGet == Init /\ [][NextGet]_vars

Is2xx(http) == http >= 200 /\ http <= 299

IsTerminal(status) == status \in {"done", "finished"}

\* C29: the conversations route classifies each upstream answer into
\* exactly one outcome: a 2xx answer with status "done" or "finished" gives
\* ready (200 with the transcript); a 2xx answer with any other status
\* gives not-ready (202, no transcript); a non-2xx answer gives a hard error
\* (404 or 500), never ready and never not-ready.
C29_OneOutcomePerAnswer ==
    getRequest.upstream.kind = "answers" =>
        LET answer == getRequest.upstream IN
        /\ lastGet.status \in {200, 202, 404, 500}
        /\ lastGet.ready <=> lastGet.status = 200
        /\ Is2xx(answer.http) /\ IsTerminal(answer.status) =>
               /\ lastGet.status = 200
               /\ Len(lastGet.transcript) = Len(answer.transcript)
        /\ Is2xx(answer.http) /\ ~IsTerminal(answer.status) =>
               lastGet.status = 202 /\ lastGet.transcript = <<>> /\ lastGet.error = ""
        /\ ~Is2xx(answer.http) =>
               /\ lastGet.status = (IF answer.http = 404 THEN 404 ELSE 500)
               /\ lastGet.error # "" /\ lastGet.transcript = <<>>

\* A conversation still in progress was answered 202.
C29_Witness ==
    /\ getRequest.upstream.kind = "answers"
    /\ getRequest.upstream.http = 200
    /\ getRequest.upstream.status = "processing"
    /\ lastGet.status = 202
    /\ ~lastGet.ready

\* A redirection was answered as a hard error.
C29_HardError ==
    /\ getRequest.upstream.kind = "answers"
    /\ getRequest.upstream.http = 301
    /\ lastGet.status = 500

\* C30: every entry of a transcript returned as ready has role "agent" or
\* "user": raw role "agent" gives "agent" and every other raw role, a
\* missing one too, gives "user"; the entries keep the order and the count
\* of the raw entries, and their messages are unchanged.
C30_RolesMapped ==
    lastGet.ready =>
        LET raw == getRequest.upstream.transcript IN
        /\ Len(lastGet.transcript) = Len(raw)
        /\ \A i \in 1..Len(raw) :
               /\ lastGet.transcript[i].role \in {"agent", "user"}
               /\ lastGet.transcript[i].role = "agent" <=> raw[i].role = "agent"
               /\ lastGet.transcript[i].message = raw[i].message

\* A ready transcript whose first raw entry has no role and whose second
\* is the agent's.
C30_Witness ==
    /\ lastGet.ready
    /\ getRequest.upstream.transcript = <<[role |-> "<missing>", message |-> 1], [role |-> "agent", message |-> 2]>>
    /\ lastGet.transcript = <<[role |-> "user", message |-> 1], [role |-> "agent", message |-> 2]>>

-----------------------------------------------------------------------------
(* C31: moments may be empty *)

\* An entry of moments that passes every check of the loop.
IsValidMoment(m) ==
    /\ m.k = "object"
    /\ m.type.k = "string"
    /\ m.type.s \in {"brilliant", "good", "neutral", "inaccuracy", "mistake", "blunder"}
    /\ m.question.k = "string" /\ HasLetter(m.question.c)
    /\ m.quote.k = "string" /\ HasLetter(m.quote.c)
    /\ m.explanation.k = "string" /\ HasLetter(m.explanation.c)

\* moments is an array of at most two entries, each of them valid.
FewValidMoments(p) ==
    /\ p.moments.k = "array"
    /\ Len(p.moments.items) <= 2
    /\ \A i \in 1..Len(p.moments.items) : IsValidMoment(p.moments.items[i])

\* The payload is accepted once its moments are replaced by the three
\* moments of the canonical response.
ValidBesidesMoments(p) ==
    RespondToParsed([p EXCEPT !.moments = Array(CanonicalMoments)]).status = 200

-----------------------------------------------------------------------------
(* C32: the range check precedes the rounding *)

\* r is x rounded half up, for x = q / Scale: r - 0.5 <= x < r + 0.5.
IsRoundHalfUp(r, q) == 2 * r * Scale - Scale <= 2 * q /\ 2 * q < 2 * r * Scale + Scale

\* The payload is accepted once its rating is replaced by the rating of the
\* canonical response.
ValidBesidesRating(p) ==
    RespondToParsed([p EXCEPT !.eloRating = CanonicalPayload.eloRating]).status = 200

\* C32: the range check is made on the raw rating and the tier and verdict
\* are computed from the rounded one. A payload with a finite raw rating x,
\* valid in every other respect, is accepted exactly when 100 <= x <= 3000;
\* the result then holds x rounded half up, an integer of 100..3000, with
\* the tier and verdict of that integer. A raw rating in [99.5, 100) or in
\* (3000, 3000.5) is rejected, and 2199.5 gives 2200, HIRED and Hired
\* Material.
C32_RangeBeforeRounding ==
    (response.status # 0 /\ IsFiniteNumber(parsed.eloRating) /\ ValidBesidesRating(parsed)) =>
        LET q == parsed.eloRating.n IN
        /\ Accepted <=> (100 * Scale <= q /\ q <= 3000 * Scale)
        /\ Accepted =>
               /\ response.results.eloRating \in 100..3000
               /\ IsRoundHalfUp(response.results.eloRating, q)
               /\ response.results.tier = BandOf(response.results.eloRating)
               /\ response.results.verdict = "HIRED" <=> response.results.eloRating >= 2200
        /\ (199 * Scale <= 2 * q /\ q < 100 * Scale) => Rejected
        /\ (3000 * Scale < q /\ 2 * q < 6001 * Scale) => Rejected
        /\ 2 * q = 4399 * Scale =>
               /\ response.results.eloRating = 2200
               /\ response.results.verdict = "HIRED"
               /\ response.results.tier = "Hired Material"

\* A raw rating of 2199.5 was accepted as 2200, HIRED, Hired Material.
C32_Witness ==
    /\ Accepted
    /\ 2 * parsed.eloRating.n = 4399 * Scale
    /\ response.results.eloRating = 2200
    /\ response.results.verdict = "HIRED"
    /\ response.results.tier = "Hired Material"

\* A raw rating of 99.5, which rounds to 100, was rejected.
C32_RejectedThoughRoundable ==
    /\ Rejected
    /\ ValidBesidesRating(parsed)
    /\ IsFiniteNumber(parsed.eloRating)
    /\ 2 * parsed.eloRating.n = 199 * Scale

-----------------------------------------------------------------------------
(* C33: the periodic sweep *)

\* The timestamp t has left the window at time t0.
IsExpired(t, t0) == t0 - t >= WINDOW_MS

AllExpired(timestamps, t0) == \A i \in 1..Len(timestamps) : IsExpired(timestamps[i], t0)

\* A rateLimit call of the scoring route that brings the call counter of
\* its store to a multiple of SWEEP_EVERY.
IsSweepCall ==
    /\ rateLimitCallCount'["score-interview"] = rateLimitCallCount["score-interview"] + 1
    /\ rateLimitCallCount'["score-interview"] % SWEEP_EVERY = 0

\* What a sweep call does to the keys other than the called one: a key
\* whose timestamps are all expired is removed, any other key keeps its
\* unexpired timestamps, in their order, and nothing else.
C33_SweepStep ==
    IsSweepCall =>
        LET before == rateLimitStore["score-interview"]
            after == rateLimitStore'["score-interview"]
            called == <<"score-interview", lastCall'.ip>>
            t0 == lastCall'.at
        IN  /\ DOMAIN after \subseteq DOMAIN before \cup {called}
            /\ \A k \in DOMAIN before \ {called} :
                   IF AllExpired(before[k], t0)
                   THEN k \notin DOMAIN after
                   ELSE /\ k \in DOMAIN after
                        /\ after[k] = SelectSeq(before[k], LAMBDA t : ~IsExpired(t, t0))

\* Right after a sweep call no key of the store holds an empty list or an
\* expired timestamp.
C33_SweptStore ==
    (lastCall.made /\ lastCall.swept) =>
        \A k \in DOMAIN rateLimitStore["score-interview"] :
            LET timestamps == rateLimitStore["score-interview"][k] IN
            /\ Len(timestamps) > 0
            /\ \A i \in 1..Len(timestamps) : ~IsExpired(timestamps[i], lastCall.at)

\* C33: on every rateLimit call that brings the call counter of its store
\* to a multiple of 100, every other key whose timestamps are all expired
\* is removed and every remaining key is left with its unexpired timestamps
\* only, so that right after the call no key of the store maps to an empty
\* or a fully expired list.
C33_PeriodicSweep == []C33_SweptStore /\ [][C33_SweepStep]_vars

\* A sweep call has removed the key of the other caller, which had been
\* admitted a full window earlier.
C33_Witness ==
    /\ lastCall.made /\ lastCall.swept
    /\ \E k \in DOMAIN admitted :
           /\ k[2] # lastCall.ip
           /\ Len(admitted[k]) > 0
           /\ k \notin DOMAIN rateLimitStore["score-interview"]

\* A sweep call has cut the list of the other caller down to its unexpired
\* timestamp.
C33_Trimmed ==
    /\ lastCall.made /\ lastCall.swept
    /\ \E k \in DOMAIN rateLimitStore["score-interview"] :
           /\ k[2] # lastCall.ip
           /\ Len(rateLimitStore["score-interview"][k]) < Len(admitted[k])

-----------------------------------------------------------------------------
(* C37: the sweep changes no decision *)

\* rateLimit with the periodic cleanup removed.
RateLimitWithoutSweep(store, callCount, identifier, maxRequests, windowMs, namespace, t0) ==
    LET key == <<namespace, identifier>>
        timestamps == IF key \in DOMAIN store THEN store[key] ELSE <<>>
        valid == SelectSeq(timestamps, LAMBDA t : t0 - t < windowMs)
    IN  IF Len(valid) >= maxRequests
        THEN [store |-> MapSet(store, key, valid), callCount |-> callCount + 1,
              success |-> FALSE, remaining |-> 0]
        ELSE [store |-> MapSet(store, key, Append(valid, t0)), callCount |-> callCount + 1,
              success |-> TRUE, remaining |-> maxRequests - (Len(valid) + 1)]

\* Every call gives the result of the limiter without the sweep, run on
\* the store that limiter has built from the same calls, which the history
\* of admissions holds.
C37_SameResult ==
    IsCallStep =>
        LET plain == RateLimitWithoutSweep(admitted, rateLimitCallCount["score-interview"],
                                           lastCall'.ip, MaxRequests, WINDOW_MS,
                                           "score-interview", lastCall'.at)
        IN  /\ lastCall'.success = plain.success
            /\ lastCall'.remaining = plain.remaining
            /\ admitted' = plain.store

\* A call deletes from the store only timestamps that are expired: the
\* unexpired timestamps of every key are still there, in their order.
C37_OnlyExpiredDeleted ==
    IsCallStep =>
        \A k \in DOMAIN rateLimitStore["score-interview"] :
            LET unexpired == SelectSeq(rateLimitStore["score-interview"][k],
                                       LAMBDA t : ~IsExpired(t, lastCall'.at))
                after == SelectSeq(MapGet(rateLimitStore'["score-interview"], k),
                                   LAMBDA t : ~IsExpired(t, lastCall'.at))
            IN  /\ Len(unexpired) <= Len(after)
                /\ SubSeq(after, 1, Len(unexpired)) = unexpired

\* The store and the store of the limiter without the sweep hold the same
\* unexpired timestamps under every key.
C37_SameLiveTimestamps ==
    \A ip \in Identifiers :
        SelectSeq(MapGet(rateLimitStore["score-interview"], ScoreKey(ip)), LAMBDA t : ~IsExpired(t, now))
            = SelectSeq(MapGet(admitted, ScoreKey(ip)), LAMBDA t : ~IsExpired(t, now))

\* C37: for every sequence of rateLimit calls on one store, all with the
\* same window, the admit or deny result and the remaining value of every
\* call are those of the same limiter without the every-100th-call sweep,
\* and the sweep deletes only timestamps that are already expired.
C37_SweepChangesNoDecision ==
    []C37_SameLiveTimestamps /\ [][C37_SameResult /\ C37_OnlyExpiredDeleted]_vars

\* After the sweep call a caller whose earlier admissions had expired was
\* admitted again, while the store held the key of the other caller.
C37_Witness ==
    /\ lastCall.made /\ lastCall.success /\ ~lastCall.swept
    /\ rateLimitCallCount["score-interview"] > SWEEP_EVERY
    /\ lastCall.oldestExpired
    /\ \E ip \in Identifiers :
           /\ ip # lastCall.ip
           /\ Len(MapGet(rateLimitStore["score-interview"], ScoreKey(ip))) > 0

-----------------------------------------------------------------------------
(* C35: the attempt budget of fetchTranscript *)

\* fetchTranscript has returned or thrown, whatever the pipeline did next.
FetchSettled == run.pc \notin {"idle", "fetch", "sleep"}

\* At most five polls and four sleeps, a sleep only between two polls, and
\* after the fifth poll the call has returned or thrown.
C35_Budget ==
    /\ run.polls <= 5
    /\ Len(run.sleeps) <= 4
    /\ Len(run.sleeps) <= run.polls
    /\ run.pc = "sleep" => (run.polls <= 4 /\ Len(run.sleeps) = run.polls)
    /\ run.pc = "fetch" => (run.polls <= 4 /\ Len(run.sleeps) = run.polls)
    /\ run.polls = 5 => FetchSettled
    /\ FetchSettled => Len(run.sleeps) = run.polls - 1

\* The fifth poll ends the call without a sleep: a not-ready answer to it
\* is reported as exhaustion at once.
C35_FifthPollStep ==
    (run'.polls # run.polls /\ run'.polls = 5) =>
        /\ run'.sleeps = run.sleeps
        /\ now' - now \in Latencies
        /\ run'.pc \in {"returned", "threw"}
        /\ run'.lastStatus = 202 =>
               (run'.pc = "threw" /\ run'.error = NotReadyMessage)

\* C35: whatever the polls are answered, fetchTranscript makes at most 5
\* polls and at most 4 sleeps and then returns or throws; it never sleeps
\* after the fifth poll, and exhaustion is reported right after the fifth
\* not-ready answer.
C35_PollBudget == []C35_Budget /\ [][C35_FifthPollStep]_vars

\* The fifth poll was answered not ready and the call threw after four
\* sleeps.
C35_Witness ==
    /\ run.pc = "threw"
    /\ run.polls = 5
    /\ Len(run.sleeps) = 4
    /\ run.lastStatus = 202
    /\ run.error = NotReadyMessage

\* The fifth poll was answered with the transcript, after four sleeps.
C35_ReturnedAtLast ==
    /\ run.pc = "returned"
    /\ run.polls = 5
    /\ Len(run.sleeps) = 4

-----------------------------------------------------------------------------
(* Both routes, each request drawn with its content when it arrives *)

\* The scoring requests: a valid one, and the valid one with its body not
\* JSON, one of its fields replaced, or the API key not configured.
ValidPostRequest ==
    [bodyIsJson |-> TRUE, transcript |-> Str(10, FALSE), cvText |-> Str(10, FALSE), hasApiKey |-> TRUE]

PostRequests ==
    { [ValidPostRequest EXCEPT !.transcript = v] : v \in TranscriptVals }
        \cup { [ValidPostRequest EXCEPT !.cvText = v] : v \in CvTextVals }
        \cup { [ValidPostRequest EXCEPT !.hasApiKey = FALSE], [ValidPostRequest EXCEPT !.bodyIsJson = FALSE] }

\* POST handles one request up to the call of the collaborator: the
\* rate-limit check, then req.json() and steps 2 and 3.  The requests arrive
\* within one window of the limiter.
PostRequest ==
    /\ rateLimitCallCount["score-interview"] < SWEEP_EVERY - MaxCalls + MaxRequests + 1
    /\ \E request \in PostRequests :
           LET r == RateLimit(rateLimitStore["score-interview"], rateLimitCallCount["score-interview"],
                              ClientIp, MaxRequests, WINDOW_MS, "score-interview", now)
               refusal == RefuseRequest(request.transcript, request.cvText, request.hasApiKey)
               arrived == [NoPost EXCEPT !.served = post.served + 1, !.bodyIsJson = request.bodyIsJson,
                                         !.transcript = request.transcript, !.cvText = request.cvText,
                                         !.hasApiKey = request.hasApiKey]
           IN  /\ DoRateLimit("score-interview", ClientIp)
               /\ IF ~r.success
                  THEN /\ post' = [arrived EXCEPT !.pc = "done", !.outcome = "denied"]
                       /\ response' = Respond(429, RateLimitMessage)
                  ELSE IF ~request.bodyIsJson
                  THEN /\ post' = [arrived EXCEPT !.pc = "done", !.outcome = "body throws"]
                       /\ response' = Respond(500, CatchAllMessage)
                  ELSE IF refusal.status # 0
                  THEN /\ post' = [arrived EXCEPT !.pc = "done", !.outcome = "refused"]
                       /\ response' = Respond(refusal.status, refusal.error)
                  ELSE /\ post' = [arrived EXCEPT !.pc = "claude", !.calls = 1]
                       /\ response' = NoResponse
    /\ parsed' = NoPayload
    /\ UNCHANGED <<flowVars, now, handlers, pipelineVars>>

\* The conversations requests: one that is answered with the transcript,
\* one whose conversation is not found, and the requests the route refuses
\* before its fetch.
OrderGetRequests ==
    { request \in GetRequests :
          \/ request.upstream.kind = "none"
          \/ request.id.len = 10 /\ request.upstream.kind = "answers" /\ request.upstream.http = 404
          \/ request.id.len = 10 /\ request.upstream = [kind |-> "answers", http |-> 200, status |-> "done",
                                                         transcript |-> <<>>] }

\* A request of OrderGetRequests arrives and is handled by GET.
GetRequestArrives ==
    /\ rateLimitCallCount["conversations"] < SWEEP_EVERY - MaxCalls + MaxRequests + 1
    /\ \E request \in OrderGetRequests : GetHandles(request)
    /\ UNCHANGED <<now, handlers, post, parsed, response, wizard, run, pipelines, session, responseText>>

NextOrder == GetRequestArrives \/ PostRequest

SpecOrder == Init /\ [][NextOrder]_vars

-----------------------------------------------------------------------------
(* C36: the rate limit comes before the validation *)

IsPostStep == rateLimitCallCount'["score-interview"] # rateLimitCallCount["score-interview"]

\* The scoring request is one the route refuses once it has been admitted.
IsInvalidPost(request) ==
    \/ ~request.bodyIsJson
    \/ BadTranscript(request.transcript)
    \/ BadCvText(request.cvText)
    \/ ~request.hasApiKey

\* The conversations request is one the route refuses once it has been
\* admitted: a malformed id, or no API key.
IsInvalidGet(request) == ~MatchesIdPattern(request.id) \/ ~request.hasApiKey

\* A scoring request is denied exactly when the caller's budget is used up,
\* valid or not, and then answered 429; an admitted request records one
\* timestamp, valid or not, and an invalid one is then answered 400 or 500.
C36_PostStep ==
    IsPostStep =>
        LET key == <<"score-interview", ClientIp>>
            before == MapGet(rateLimitStore["score-interview"], key)
            after == MapGet(rateLimitStore'["score-interview"], key)
        IN  /\ post'.outcome = "denied" <=> Len(before) >= MaxRequests
            /\ post'.outcome = "denied" => (response'.status = 429 /\ after = before)
            /\ post'.outcome # "denied" =>
                   /\ after = Append(before, now)
                   /\ IsInvalidPost(post') <=> response'.status \in {400, 500}
                   /\ (BadTranscript(post'.transcript) \/ BadCvText(post'.cvText)) /\ post'.bodyIsJson
                          => response'.status = 400

\* The same for a request of the conversations route.
C36_GetStep ==
    IsGetStep =>
        LET key == <<"conversations", ClientIp>>
            before == MapGet(rateLimitStore["conversations"], key)
            after == MapGet(rateLimitStore'["conversations"], key)
        IN  /\ ~getRequest'.admitted <=> Len(before) >= MaxRequests
            /\ ~getRequest'.admitted => (lastGet'.status = 429 /\ after = before)
            /\ getRequest'.admitted =>
                   /\ after = Append(before, now)
                   /\ ~MatchesIdPattern(getRequest'.id) => lastGet'.status = 400
                   /\ (MatchesIdPattern(getRequest'.id) /\ ~getRequest'.hasApiKey) => lastGet'.status = 500

\* An answer of 400, or of 500 for the configuration, is given to admitted
\* requests only.
C36_RefusedAfterAdmission ==
    /\ (post.pc = "done" /\ post.outcome = "denied") =>
           (response.status = 429 /\ response.error = RateLimitMessage)
    /\ (post.pc = "done" /\ response.status = 400) => post.outcome = "refused"
    /\ ~getRequest.admitted => lastGet.status \in {0, 429}
    /\ lastGet.status = 400 => getRequest.admitted

\* C36: in both routes the rate-limit check runs before any input
\* validation: a request that is then refused as invalid, or that fails on
\* the configuration, has recorded one timestamp and counts against the
\* caller's budget, and a request that is over budget and invalid is
\* answered 429, never 400.
C36_RateLimitFirst == []C36_RefusedAfterAdmission /\ [][C36_PostStep /\ C36_GetStep]_vars

\* After two invalid requests had used up the budget of each route, an
\* invalid third request was answered 429 by each.
C36_Witness ==
    /\ post.pc = "done" /\ post.outcome = "denied"
    /\ BadTranscript(post.transcript)
    /\ response.status = 429
    /\ Len(MapGet(rateLimitStore["score-interview"], <<"score-interview", ClientIp>>)) = MaxRequests
    /\ rateLimitCallCount["score-interview"] = SWEEP_EVERY - MaxCalls + MaxRequests + 1
    /\ ~getRequest.admitted
    /\ ~MatchesIdPattern(getRequest.id)
    /\ lastGet.status = 429
    /\ upstreamCalls = 0
    /\ Len(MapGet(rateLimitStore["conversations"], <<"conversations", ClientIp>>)) = MaxRequests

\* An admitted request with an oversized transcript was answered 400 and
\* its timestamp is in the store.
C36_InvalidCounted ==
    /\ post.pc = "done" /\ post.outcome = "refused"
    /\ post.transcript = Str(MAX_TRANSCRIPT_LENGTH + 1, FALSE)
    /\ response.status = 400
    /\ Len(MapGet(rateLimitStore["score-interview"], <<"score-interview", ClientIp>>)) = 1

-----------------------------------------------------------------------------
(* C34: every pipeline run ends in one terminal outcome *)

\* Every external call returns or fails (the polls of the conversations
\* route and the scoring request), every timer fires (the backoff sleeps
\* and the dwell), and the continuation of a settled await runs.  Nothing
\* makes a conversation end, so StartPipeline is not fair.
FairFetch ==
    /\ WF_vars(Poll)
    /\ WF_vars(Wake)
    /\ WF_vars(TranscriptRetrieved)
    /\ WF_vars(RetrievalFailed)
    /\ WF_vars(ScoringSettles)
    /\ WF_vars(DwellEnds)

SpecFetchFair == Init /\ [][NextFetch]_vars /\ FairFetch

PipelineStarted == run.pc # "idle"

\* Done: the wizard shows the results.
PipelineDone == run.pc = "done" /\ wizard.step = "results" /\ ~wizard.results.isNull

\* Failed: the error is set and the phase is cleared.
PipelineFailed ==
    /\ run.pc = "failed"
    /\ wizard.step = "analysis"
    /\ wizard.error # NullString
    /\ wizard.analysisPhase = 0

\* Not both outcomes at once; the retrieval ends within the attempt budget,
\* having slept the four backoff delays at most.
C34_OneOutcome ==
    /\ ~(PipelineDone /\ PipelineFailed)
    /\ ~(wizard.step = "results" /\ wizard.error # NullString)
    /\ run.pc \in {"done", "failed"} <=> (PipelineDone \/ PipelineFailed)
    /\ run.polls <= MAX_ATTEMPTS
    /\ Len(run.sleeps) <= MAX_ATTEMPTS - 1

\* An outcome, once reached, is kept.
C34_OutcomeKept ==
    /\ PipelineDone => PipelineDone'
    /\ PipelineFailed => PipelineFailed'

\* C34: given that each external call eventually returns or fails, a
\* started runAnalysisPipeline eventually reaches Done (step "results") or
\* Failed (error set, phase cleared), never both and never neither; the
\* retrieval ends within its attempt budget and the dwell always completes.
C34_RunTerminates ==
    /\ PipelineStarted ~> (PipelineDone \/ PipelineFailed)
    /\ (run.pc = "dwell") ~> PipelineDone
    /\ []C34_OneOutcome
    /\ [][C34_OutcomeKept]_vars

\* A run that was answered not ready four times, then with the transcript,
\* has reached Done.
C34_Witness ==
    /\ PipelineDone
    /\ run.polls = MAX_ATTEMPTS
    /\ Len(run.sleeps) = MAX_ATTEMPTS - 1

\* A run has reached Failed on its scoring request.
C34_FailedInScoring ==
    /\ PipelineFailed
    /\ ~wizard.transcript.isNull

-----------------------------------------------------------------------------
(* C38: the wizard after a failed run *)

\* A run has failed and the wizard shows the failure: step "analysis" and
\* no phase.  The error is the message of the failure, or null once it has
\* been dismissed.
WizardFailed ==
    /\ \E r \in Runs : pipelines[r].pc = "failed"
    /\ wizard.step = "analysis"
    /\ wizard.analysisPhase = 0

\* The catch block of a run is executed.
IsFailureOf(r) == pipelines[r].pc # "failed" /\ pipelines'[r].pc = "failed"

\* The step invokes resetForRetry or resetFull (a new attempt begins), or
\* setStep: in one of the handlers of the steps, at the start of a run or
\* at the end of its dwell.
InvokesResetOrSetStep ==
    \/ session'.attempt # session.attempt
    \/ wizard'.step # wizard.step
    \/ \E r \in Runs : pipelines[r].pc = "scheduled" /\ pipelines'[r].pc = "retrieving"
    \/ \E r \in Runs : pipelines[r].pc = "dwell" /\ pipelines'[r].pc = "done"

\* The failure handler leaves the wizard at "analysis" with no phase and
\* the error set, and that state is kept, the error dismissed or not, by
\* every step that invokes none of resetForRetry, resetFull and setStep.
C38_FailureStep ==
    /\ \A r \in Runs :
           IsFailureOf(r) =>
               /\ wizard'.step = "analysis"
               /\ wizard'.analysisPhase = 0
               /\ wizard'.error # NullString
    /\ (WizardFailed /\ ~InvokesResetOrSetStep) =>
           /\ WizardFailed'
           /\ wizard'.error \in {wizard.error, NullString}
           /\ [wizard' EXCEPT !.error = NullString] = [wizard EXCEPT !.error = NullString]

C38_FailedStateKeptOfOneRun ==
    [][(pipelines[2].pc = "idle" /\ pipelines'[2].pc = "idle") => C38_FailureStep]_vars

\* After a failure the error was dismissed, and the wizard is still at
\* "analysis" without a phase.
C38_Dismissed ==
    /\ WizardFailed
    /\ wizard.error = NullString
    /\ \A r \in Runs : pipelines[r].pc \in {"idle", "failed"}

-----------------------------------------------------------------------------
(* C39: a ready transcript without entries *)

TranscriptRequired == "Interview transcript is required"

\* fetchTranscript returned a transcript without entries, which the
\* pipeline has stored.
EmptyTranscriptStored ==
    /\ run.pc \in {"scoring", "dwell", "done", "failed"}
    /\ ~wizard.transcript.isNull
    /\ wizard.transcript.entries = <<>>

\* The scoring request of the run has settled.
ScoringSettled == run.scoreStatus # 0

C39_RateLimited ==
    /\ EmptyTranscriptStored
    /\ run.pc = "failed"
    /\ run.scoreStatus = 429
    /\ wizard.error = RateLimitMessage

====
